---- MODULE Spec2Model ----
(***************************************************************************)
(* Model of the task store (database/rag_task_db.py) and of the versioned  *)
(* task cache in front of it (ui/rag_cache.py).                            *)
(*                                                                         *)
(* The sqlite3 connection is modelled with its committed image (what any   *)
(* other connection reads), its working image (what this connection reads  *)
(* and writes) and the flag saying whether a transaction is open.  The     *)
(* connection is opened by sqlite3.connect(db_name) with the default       *)
(* isolation level: a data-modifying statement opens a transaction when    *)
(* none is open, commit() ends it and is a no-op when none is open.        *)
(*                                                                         *)
(* The second half models the embedding index of todo.context.py           *)
(* (EnhancedVectorIndex: enhancement, rebuild, search) and the             *)
(* TaskRecommender on top of it, as whole calls and statement by statement *)
(* for coroutines that call the index concurrently.                        *)
(*                                                                         *)
(* The last part models the document builders of rag/rag_system.py (task   *)
(* documents, the chunking of knowledge-base files) as functions applied   *)
(* to inputs drawn from bounded sets, and the Streamlit session of ui/:    *)
(* one run of the script per step, with the assistant panel                *)
(* (rag_task_assist.py) and the task forms (rag_task_management.py).       *)
(* initialize_rag_system is also applied on its own to every store the     *)
(* task layer can leave (SpecInit), and the interleaved index calls have a *)
(* fair variant (SpecIndexConcFair) for the property that rebuilds end.    *)
(***************************************************************************)
EXTENDS Integers, Sequences, FiniteSets, TLC

\* ---------------------------------------------------------------- bounds
MaxId == 2          \* rows ever inserted (AUTOINCREMENT never reuses an id)
MaxVersion == 3     \* cap on the cache version counter
MaxJson == 2        \* records in a bulk-import file
MaxTasks == 2       \* tasks in one rebuild request of the embedding index
MaxK == 3           \* largest k passed to search
MaxDocId == 10      \* largest task id handed to the document builder
MaxDocs == 2        \* tasks in one call of the document builder
MaxText == 4        \* characters in a knowledge-base file
MaxChunk == 3       \* largest chunk_size the splitter is configured with
MaxFiles == 2       \* files in a knowledge-base directory tree
MaxChat == 6        \* messages in the chat history

Ids == 1..MaxId

\* Where a statement of a versioned write is made to fail (sqlite3.Error).
FailPoints == {"none", "write", "write_commit", "incr", "incr_commit"}

VARIABLES
    db,      \* the connection: [c: committed image, w: working image, txn]
    cache,   \* st.session_state.task_cache: [version, tasks, loaded]
    last,    \* the last call: operation, result, and the state it started from
    hist,    \* ghost: what the cache layer read on its latest reload
    wr,      \* a versioned write in progress, statement by statement
    rd,      \* a cache reload in progress on a second connection
    obs,     \* ghost: what the latest such reload read from the store
    ts,      \* todo.context.py TaskStore: the rows of its tasks table
    vi,      \* EnhancedVectorIndex: [index, task_ids, enhanced_embeddings, use_llm, lock]
    il,      \* the last call on the index or the recommender, with its result
    pr,      \* coroutines calling the index concurrently, statement by statement
    dl,      \* the last call of the document builders of rag_system.py
    ss,      \* st.session_state of the Streamlit session
    ul       \* the last step of the UI layer, with its outcome

ixvars == <<ts, vi, il, pr>>

uivars == <<dl, ss, ul>>

vars == <<db, cache, last, hist, wr, rd, obs, ts, vi, il, pr, dl, ss, ul>>

\* ------------------------------------------------------------ small helpers
EmptyRows == [x \in {} |-> 0]

Put(f, k, v) == [x \in (DOMAIN f) \cup {k} |-> IF x = k THEN v ELSE f[x]]

\* Results of the Python calls, in one record shape.
None == [kind |-> "None", id |-> 0]
False == [kind |-> "False", id |-> 0]
Raised == [kind |-> "raise", id |-> 0]
Unit == [kind |-> "ok", id |-> 0]
RowId(i) == [kind |-> "rowid", id |-> i]
TaskObj(i) == [kind |-> "task", id |-> i]

\* `result is not None and result is not False`
Truthy(r) == r.kind \notin {"None", "False"}

\* ------------------------------------------------------------------- text
\* Text is a sequence of one-character strings.  The task contents used are
\* the indices of TagLists: content v is a task whose tag list is
\* TagLists[v]; the tags column holds the tags joined by commas.
TagLists == <<
    << <<"A">> >>,
    << <<"A", "B">>, <<"a">> >> >>

Vals == DOMAIN TagLists

FilterTags == { <<"A">>, <<"A", "B">> }

All == <<"A", "l", "l">>

TagsOf(v) == TagLists[v]

\* ','.join(tags)
RECURSIVE Join(_)
Join(tags) ==
    IF tags = <<>> THEN <<>>
    ELSE IF Len(tags) = 1 THEN tags[1]
    ELSE tags[1] \o <<",">> \o Join(Tail(tags))

TagText(v) == Join(TagsOf(v))

\* text.split(',')
RECURSIVE Split(_)
Split(text) ==
    IF \E i \in 1..Len(text) : text[i] = ","
    THEN LET i == CHOOSE j \in 1..Len(text) :
                      text[j] = "," /\ \A k \in 1..(j - 1) : text[k] # ","
         IN  <<SubSeq(text, 1, i - 1)>> \o Split(SubSeq(text, i + 1, Len(text)))
    ELSE <<text>>

InSeq(x, s) == \E i \in 1..Len(s) : s[i] = x

\* SQLite's LIKE folds ASCII case.
Fold(ch) == IF ch = "a" THEN "A" ELSE IF ch = "b" THEN "B" ELSE ch

FoldText(text) == [i \in 1..Len(text) |-> Fold(text[i])]

\* text LIKE '%' || pat || '%' for a pattern without wildcards.
Like(pat, text) ==
    \E i \in 0..(Len(text) - Len(pat)) :
        FoldText(SubSeq(text, i + 1, i + Len(pat))) = FoldText(pat)

\* --------------------------------------------------- the sqlite3 connection
Begin(d) == [d EXCEPT !.txn = TRUE]

Commit(d) == [c |-> d.w, w |-> d.w, txn |-> FALSE]

Rollback(d) == [c |-> d.c, w |-> d.c, txn |-> FALSE]

\* INSERT INTO tasks ...: the new row gets the next AUTOINCREMENT id.
ExecInsert(d, val) ==
    [d EXCEPT !.txn = TRUE,
              !.w.tasks = Put(d.w.tasks, d.w.seq + 1, val),
              !.w.seq = d.w.seq + 1]

\* UPDATE tasks SET ... WHERE id = ?
ExecUpdate(d, id, val) ==
    IF id \in DOMAIN d.w.tasks
    THEN [d EXCEPT !.txn = TRUE, !.w.tasks = [d.w.tasks EXCEPT ![id] = val]]
    ELSE [d EXCEPT !.txn = TRUE]

\* Faulty variant of ExecIncr: adds 2.
ExecIncrTwice(d) == [d EXCEPT !.txn = TRUE, !.w.version = d.w.version + 2]

\* UPDATE cache_versions SET version = version + 1 WHERE id = 1
ExecIncr(d) == [d EXCEPT !.txn = TRUE, !.w.version = d.w.version + 1]

\* A statement that failed: with keep the transaction stays open with what
\* it held (SQLITE_BUSY), without it sqlite has rolled the transaction back.
FailedCommit(d, keep) == IF keep THEN d ELSE Rollback(d)

\* ------------------------------------------------------------ TaskDatabase
get_cache_version(d) == d.w.version

get_all_tasks(d) == d.w.tasks

\* A versioned write in progress is w = [pc, db, call, res, fail, keep]:
\* the statement it is at, the connection, the call [name, id, val], the
\* method's result, and the statement made to fail (keep as in FailedCommit).

\* The body of add_task: INSERT, commit, return lastrowid; a sqlite3.Error
\* is caught and None returned.
add_task_step(w) ==
    IF w.pc = "write"
    THEN IF w.fail = "write"
         THEN [w EXCEPT !.res = None, !.pc = "returned"]
         ELSE [w EXCEPT !.db = ExecInsert(w.db, w.call.val), !.pc = "write_commit"]
    ELSE IF w.fail = "write_commit"
         THEN [w EXCEPT !.db = FailedCommit(w.db, w.keep), !.res = None,
                        !.pc = "returned"]
         ELSE [w EXCEPT !.db = Commit(w.db), !.res = RowId(w.db.w.seq),
                        !.pc = "returned"]

\* The body of update_task: UPDATE, commit, the task when rowcount > 0 and
\* False otherwise; a sqlite3.Error is caught and False returned.
update_task_step(w) ==
    IF w.pc = "write"
    THEN IF w.fail = "write"
         THEN [w EXCEPT !.res = False, !.pc = "returned"]
         ELSE [w EXCEPT !.db = ExecUpdate(w.db, w.call.id, w.call.val),
                        !.pc = "write_commit"]
    ELSE IF w.fail = "write_commit"
         THEN [w EXCEPT !.db = FailedCommit(w.db, w.keep), !.res = False,
                        !.pc = "returned"]
         ELSE [w EXCEPT !.db = Commit(w.db),
                        !.res = IF w.call.id \in DOMAIN w.db.w.tasks
                                THEN TaskObj(w.call.id) ELSE False,
                        !.pc = "returned"]

\* _increment_cache_version: the UPDATE, then its own commit.
increment_cache_version_step(w) ==
    IF w.pc = "incr"
    THEN IF w.fail = "incr"
         THEN [w EXCEPT !.pc = "except"]
         ELSE [w EXCEPT !.db = ExecIncr(w.db), !.pc = "incr_commit"]
    ELSE IF w.fail = "incr_commit"
         THEN [w EXCEPT !.db = FailedCommit(w.db, w.keep), !.pc = "except"]
         ELSE [w EXCEPT !.db = Commit(w.db), !.pc = "commit"]

\* `if result is not None and result is not False: increment`
AfterMethod(w) ==
    IF w.pc = "returned"
    THEN [w EXCEPT !.pc = IF Truthy(w.res) THEN "incr" ELSE "commit"]
    ELSE w

\* The decorator, one statement at a time: BEGIN (an error inside an open
\* transaction), the method, the increment, commit; on an exception
\* rollback and re-raise.
version_aware_step(w) ==
    CASE w.pc = "begin" ->
            IF w.db.txn THEN [w EXCEPT !.pc = "except"]
            ELSE [w EXCEPT !.db = Begin(w.db), !.pc = "write"]
      [] w.pc \in {"write", "write_commit"} ->
            AfterMethod(IF w.call.name = "add_task"
                        THEN add_task_step(w) ELSE update_task_step(w))
      [] w.pc \in {"incr", "incr_commit"} -> increment_cache_version_step(w)
      [] w.pc = "commit" -> [w EXCEPT !.db = Commit(w.db), !.pc = "done"]
      [] w.pc = "except" -> [w EXCEPT !.db = Rollback(w.db), !.res = Raised,
                                      !.pc = "done"]

StartCall(d, call, fail, keep) ==
    [pc |-> "begin", db |-> d, call |-> call, res |-> None, fail |-> fail,
     keep |-> keep]

RECURSIVE RunCall(_)
RunCall(w) == IF w.pc = "done" THEN w ELSE RunCall(version_aware_step(w))

\* A whole versioned call on connection d: [db, res].
version_aware(d, call, fail, keep) ==
    LET w == RunCall(StartCall(d, call, fail, keep))
    IN  [db |-> w.db, res |-> w.res]

add_task(d, val, fail, keep) ==
    version_aware(d, [name |-> "add_task", id |-> 0, val |-> val], fail, keep)

update_task(d, id, val, fail, keep) ==
    version_aware(d, [name |-> "update_task", id |-> id, val |-> val], fail, keep)

\* Faulty variant of truncate_tables: also bumps the version.
truncate_tables_Bump(d) ==
    Commit([d EXCEPT !.txn = TRUE, !.w.tasks = EmptyRows,
                     !.w.version = d.w.version + 1])

\* DELETE FROM tasks; commit.
truncate_tables(d) == Commit([d EXCEPT !.txn = TRUE, !.w.tasks = EmptyRows])

\* Faulty variant of initialize_tables: INSERT OR REPLACE resets the row.
initialize_tables_Replace(d) == Commit([d EXCEPT !.txn = TRUE, !.w.version = 1])

\* CREATE TABLE IF NOT EXISTS ...; INSERT OR IGNORE INTO cache_versions
\* VALUES (1, 1); commit.  version = 0 stands for "no row".
initialize_tables(d) ==
    Commit([d EXCEPT !.txn = TRUE,
                     !.w.version = IF d.w.version = 0 THEN 1 ELSE d.w.version])

\* get_tasks_by_tags: SELECT ... WHERE tags LIKE '%' || tag || '%'
get_tasks_by_tags(d, tag) ==
    LET hit == {i \in DOMAIN d.w.tasks : Like(tag, TagText(d.w.tasks[i]))}
    IN  [i \in hit |-> d.w.tasks[i]]

\* populate_from_json: open and parse the file, then add_task per record.
\* file is [kind, data]: kind "missing" (open raises FileNotFoundError),
\* "invalid" (text that json.load rejects with JSONDecodeError), "undecodable"
\* (bytes that are not text in the encoding of open(file_path, 'r'): the read
\* inside json.load raises UnicodeDecodeError, which neither except clause
\* names) or "data" with a sequence of <<val, fail>> records; an exception of
\* add_task leaves the loop and the method.
\* The result counts the add_task calls that returned a row id.
RECURSIVE import_records(_, _, _, _)
import_records(d, data, keep, n) ==
    IF data = <<>> THEN [db |-> d, res |-> [kind |-> "ok", id |-> n]]
    ELSE LET r == add_task(d, data[1][1], data[1][2], keep)
         IN  IF r.res = Raised THEN [db |-> r.db, res |-> [kind |-> "raise", id |-> n]]
             ELSE import_records(r.db, Tail(data), keep,
                                 IF r.res.kind = "rowid" THEN n + 1 ELSE n)

populate_from_json(d, file, keep) ==
    IF file.kind \in {"missing", "invalid"} THEN [db |-> d, res |-> [kind |-> file.kind, id |-> 0]]
    ELSE IF file.kind = "undecodable" THEN [db |-> d, res |-> Raised]
    ELSE import_records(d, file.data, keep, 0)

\* ------------------------------------------------------------ CacheService
\* load_cache: read the store's version; reload everything when not loaded
\* or when the versions differ.  got says whether get_all_tasks was called,
\* seen is what get_cache_version returned, rows what get_all_tasks returned.
\* reload is the part after the version has been read as v.  Rows come as one
\* record per id (the PRIMARY KEY), which is also the shape of the dict
\* {t['id']: t} the cache keeps.

\* Faulty variant of reload: looks at loaded only.
reload_NoVersionCheck(c, v, d) ==
    IF ~c.loaded
    THEN [cache |-> [version |-> v, tasks |-> get_all_tasks(d), loaded |-> TRUE],
          got |-> TRUE, seen |-> v, rows |-> get_all_tasks(d)]
    ELSE [cache |-> c, got |-> FALSE, seen |-> v, rows |-> EmptyRows]

\* Faulty variant of reload: updates the old dict instead of replacing it.
reload_Merge(c, v, d) ==
    IF ~c.loaded \/ c.version # v
    THEN [cache |-> [version |-> v,
                     tasks |-> [x \in (DOMAIN c.tasks) \cup (DOMAIN get_all_tasks(d)) |->
                                   IF x \in DOMAIN get_all_tasks(d)
                                   THEN get_all_tasks(d)[x] ELSE c.tasks[x]],
                     loaded |-> TRUE],
          got |-> TRUE, seen |-> v, rows |-> get_all_tasks(d)]
    ELSE [cache |-> c, got |-> FALSE, seen |-> v, rows |-> EmptyRows]

\* Faulty variant of reload: does not store the version it read.
reload_KeepVersion(c, v, d) ==
    IF ~c.loaded \/ c.version # v
    THEN [cache |-> [version |-> c.version, tasks |-> get_all_tasks(d), loaded |-> TRUE],
          got |-> TRUE, seen |-> v, rows |-> get_all_tasks(d)]
    ELSE [cache |-> c, got |-> FALSE, seen |-> v, rows |-> EmptyRows]

\* Faulty variant of reload: reloads on every call.
reload_Always(c, v, d) ==
    [cache |-> [version |-> v, tasks |-> get_all_tasks(d), loaded |-> TRUE],
     got |-> TRUE, seen |-> v, rows |-> get_all_tasks(d)]

\* Faulty variant of reload: looks at the version only.
reload_VersionOnly(c, v, d) ==
    IF c.version # v
    THEN [cache |-> [version |-> v, tasks |-> get_all_tasks(d), loaded |-> TRUE],
          got |-> TRUE, seen |-> v, rows |-> get_all_tasks(d)]
    ELSE [cache |-> c, got |-> FALSE, seen |-> v, rows |-> EmptyRows]

reload(c, v, d) ==
    IF ~c.loaded \/ c.version # v
    THEN [cache |-> [version |-> v, tasks |-> get_all_tasks(d), loaded |-> TRUE],
          got |-> TRUE, seen |-> v, rows |-> get_all_tasks(d)]
    ELSE [cache |-> c, got |-> FALSE, seen |-> v, rows |-> EmptyRows]

load_cache(c, d) == reload(c, get_cache_version(d), d)

\* get_tasks: the cached tasks, filtered by whole-element tag membership
\* unless the filter is None or 'All'.
cached_tasks(c, filter) ==
    IF filter \in {<<>>, All} THEN c.tasks
    ELSE LET hit == {i \in DOMAIN c.tasks : InSeq(filter, Split(TagText(c.tasks[i])))}
         IN  [i \in hit |-> c.tasks[i]]

invalidate_cache(c) == [c EXCEPT !.loaded = FALSE]

\* ------------------------------------------------- the embedding index
\* todo.context.py and todo.context.simple.py hold the same
\* EnhancedVectorIndex and TaskRecommender; line numbers below are those of
\* todo.context.py.  A text is a sequence of words and blanks.  A Task is
\* [id, title, description]; created_at plays no part in the index.  The
\* outcome of model.generate_content_async is gen: an exception (kind
\* "raise"), or a response whose text.split('TASK:')[1:] is gen.records.
Queries == { <<"x">>, <<"y", " ", "d">> }

TaskIds == 1..MaxTasks

\* str.strip()
RECURSIVE Strip(_)
Strip(text) ==
    IF text = <<>> THEN text
    ELSE IF Head(text) \in {" ", "\n"} THEN Strip(Tail(text))
    ELSE IF text[Len(text)] \in {" ", "\n"} THEN Strip(SubSeq(text, 1, Len(text) - 1))
    ELSE text

\* str.rfind('TAGS:'): the last position of the word, 0 for Python's -1.
RFindTags(text) ==
    IF \E i \in 1..Len(text) : text[i] = "TAGS:"
    THEN CHOOSE i \in 1..Len(text) :
             text[i] = "TAGS:" /\ \A j \in (i + 1)..Len(text) : text[j] # "TAGS:"
    ELSE 0

\* task_texts: (task.id, f"{task.title} {task.description}".strip()) per task.
task_texts(tasks) ==
    [i \in 1..Len(tasks) |->
        [id |-> tasks[i].id,
         text |-> Strip(tasks[i].title \o <<" ">> \o tasks[i].description)]]

\* One record of the response applied to one task (lines 134-146).
enhance_one(original_text, record) ==
    LET enhanced_part == Strip(record)
        tags_start == RFindTags(enhanced_part)
        enhanced_text == IF tags_start # 0
                         THEN Strip(SubSeq(enhanced_part, 1, tags_start - 1))
                         ELSE enhanced_part
        tags == IF tags_start # 0
                THEN Strip(SubSeq(enhanced_part, tags_start, Len(enhanced_part)))
                ELSE <<>>
    IN  original_text \o <<" ">> \o enhanced_text \o <<" ">> \o tags

\* The dict built by assigning the items of a list of (id, text) in order:
\* a later item with the same id overwrites an earlier one.
AsDict(items) ==
    [k \in {items[i].id : i \in 1..Len(items)} |->
        LET i == CHOOSE j \in 1..Len(items) :
                     items[j].id = k /\ \A m \in (j + 1)..Len(items) : items[m].id # k
        IN  items[i].text]

\* Faulty variant of enhance_task_descriptions: keeps only the tasks the
\* response has a record for.
enhance_task_descriptions_Drop(use_llm, tasks, gen) ==
    [raised |-> FALSE, requests |-> IF use_llm THEN 1 ELSE 0,
     texts |-> IF ~use_llm \/ gen.kind = "raise" THEN AsDict(tasks)
               ELSE AsDict([i \in 1..(IF Len(gen.records) < Len(tasks)
                                      THEN Len(gen.records) ELSE Len(tasks)) |->
                               [id |-> tasks[i].id,
                                text |-> enhance_one(tasks[i].text, gen.records[i])]])]

\* Faulty variant of enhance_task_descriptions: lets the exception of the
\* generation call through.
enhance_task_descriptions_Reraise(use_llm, tasks, gen) ==
    IF use_llm /\ gen.kind = "raise"
    THEN [raised |-> TRUE, requests |-> 1, texts |-> EmptyRows]
    ELSE [raised |-> FALSE, requests |-> IF use_llm THEN 1 ELSE 0,
          texts |-> IF ~use_llm THEN AsDict(tasks)
                    ELSE AsDict([i \in 1..Len(tasks) |->
                                    [id |-> tasks[i].id,
                                     text |-> IF i <= Len(gen.records)
                                              THEN enhance_one(tasks[i].text, gen.records[i])
                                              ELSE tasks[i].text]])]

\* Faulty variant of enhance_task_descriptions: one generation request per
\* task.
enhance_task_descriptions_PerTask(use_llm, tasks, gen) ==
    [raised |-> FALSE, requests |-> IF use_llm THEN Len(tasks) ELSE 0,
     texts |-> IF ~use_llm \/ gen.kind = "raise" THEN AsDict(tasks)
               ELSE AsDict([i \in 1..Len(tasks) |->
                               [id |-> tasks[i].id,
                                text |-> IF i <= Len(gen.records)
                                         THEN enhance_one(tasks[i].text, gen.records[i])
                                         ELSE tasks[i].text]])]

\* Faulty variant of enhance_task_descriptions: looks a task's record up by
\* the task's id instead of its position in the list.
enhance_task_descriptions_ById(use_llm, tasks, gen) ==
    [raised |-> FALSE, requests |-> IF use_llm THEN 1 ELSE 0,
     texts |-> IF ~use_llm \/ gen.kind = "raise" THEN AsDict(tasks)
               ELSE AsDict([i \in 1..Len(tasks) |->
                               [id |-> tasks[i].id,
                                text |-> IF tasks[i].id <= Len(gen.records)
                                         THEN enhance_one(tasks[i].text,
                                                          gen.records[tasks[i].id])
                                         ELSE tasks[i].text]])]

\* enhance_task_descriptions(tasks) with gen the outcome of its generation
\* call: the mapping returned (texts), whether it raised, and the number of
\* generation requests it made.
enhance_task_descriptions(use_llm, tasks, gen) ==
    IF ~use_llm
    THEN [raised |-> FALSE, requests |-> 0, texts |-> AsDict(tasks)]
    ELSE IF gen.kind = "raise"
    THEN [raised |-> FALSE, requests |-> 1, texts |-> AsDict(tasks)]
    ELSE [raised |-> FALSE, requests |-> 1,
          texts |-> AsDict([i \in 1..Len(tasks) |->
                               [id |-> tasks[i].id,
                                text |-> IF i <= Len(gen.records)
                                         THEN enhance_one(tasks[i].text, gen.records[i])
                                         ELSE tasks[i].text]])]

\* embedding_model.encode: one vector per text.  The embedding space is
\* reduced to the integers: a text is embedded as the sum of its words'
\* weights, and the L2 distance is the squared difference.
Weight(word) ==
    CASE word = "x" -> 1
      [] word = "d" -> 2
      [] word = "y" -> 4
      [] word = "e" -> 8
      [] word = "[t]" -> 16
      [] OTHER -> 0

RECURSIVE Embed(_)
Embed(text) == IF text = <<>> THEN 0 ELSE Weight(Head(text)) + Embed(Tail(text))

encode(texts) == [i \in 1..Len(texts) |-> Embed(texts[i])]

L2(a, b) == (a - b) * (a - b)

\* faiss.IndexFlatL2: the vectors in insertion order.
IndexFlatL2 == <<>>

\* index.add(x).  For no texts encode returns an array of shape (0,), and
\* add, which unpacks x.shape into n, d, raises ValueError.
index_add(index, x) ==
    IF x = <<>> THEN [raised |-> TRUE, index |-> index]
    ELSE [raised |-> FALSE, index |-> index \o x]

\* index.search(x, k): faiss requires k > 0 (it raises otherwise) and
\* returns k labels, the positions of the nearest vectors first, filled up
\* with -1.  Positions count from 1 here.
index_search(index, q, k) ==
    IF k < 1 THEN [raised |-> TRUE, labels |-> <<>>]
    ELSE [raised |-> FALSE,
          labels |->
            [r \in 1..k |->
                IF r <= Len(index)
                THEN CHOOSE p \in 1..Len(index) :
                       Cardinality({o \in 1..Len(index) :
                                       \/ L2(index[o], q) < L2(index[p], q)
                                       \/ L2(index[o], q) = L2(index[p], q) /\ o < p})
                           = r - 1
                ELSE -1]]

\* The list comprehension of search (line 196): task_ids[idx] for the labels
\* other than -1; IndexError when a label is beyond task_ids.
collect_ids(task_ids, labels) ==
    LET hits == SelectSeq(labels, LAMBDA idx : idx # -1)
    IN  IF \E i \in 1..Len(hits) : hits[i] > Len(task_ids)
        THEN [kind |-> "raised", ids |-> <<>>]
        ELSE [kind |-> "ids", ids |-> [i \in 1..Len(hits) |-> task_ids[hits[i]]]]

\* search(query, k) on the index object v.
search(v, query, k) ==
    LET r == index_search(v.index, encode(<<query>>)[1], k)
    IN  IF r.raised THEN [kind |-> "raised", ids |-> <<>>]
        ELSE collect_ids(v.task_ids, r.labels)

\* EnhancedVectorIndex.__init__
NewIndex(use_llm) ==
    [index |-> IndexFlatL2, task_ids |-> <<>>, enhanced_embeddings |-> EmptyRows,
     use_llm |-> use_llm, locked |-> FALSE]

\* The Task with id i; its title and description follow from the id.
TaskOf(i) ==
    IF i % 2 = 1 THEN [id |-> i, title |-> <<"x">>, description |-> <<>>]
    ELSE [id |-> i, title |-> <<"y">>, description |-> <<"d">>]

\* The task lists a rebuild is asked for: any tasks of the table, in the
\* order of their ids (the order of SELECT * FROM tasks).
RECURSIVE ListOf(_)
ListOf(S) ==
    IF S = {} THEN <<>>
    ELSE LET m == CHOOSE x \in S : \A y \in S : y <= x
         IN  Append(ListOf(S \ {m}), TaskOf(m))

TaskLists == { ListOf(S) : S \in SUBSET TaskIds }

\* A response whose records differ from one position to the next.
RecordAt(i) ==
    IF i % 2 = 1 THEN <<" ", "e", " ", "TAGS:", " ", "[t]", " ">> ELSE <<" ", "e", " ">>

GenOutcomes ==
    { [kind |-> "raise", records |-> <<>>] } \cup
    { [kind |-> "text", records |-> [i \in 1..n |-> RecordAt(i)]] : n \in 0..(MaxTasks + 1) }

\* A call of build_index_for_tasks(tasks): where it is, its locals, and
\* its outcome (Unit when it returned, Raised when it raised).
NewBuild(tasks, gen) ==
    [pc |-> "acquire", tasks |-> tasks, gen |-> gen,
     enhanced_texts |-> EmptyRows, all_embeddings |-> <<>>, res |-> None]

IdsOf(tasks) == [i \in 1..Len(tasks) |-> tasks[i].id]

\* with self.lock: entered when the lock is free.
CanAcquire_Always(v) == TRUE

CanAcquire(v) == ~v.locked

\* Faulty variant of reset_index: keeps the old vectors.
reset_index_Keep(v) == v

\* self.index = faiss.IndexFlatL2(...)
reset_index(v) == [v EXCEPT !.index = IndexFlatL2]

\* An exception inside the with block: the lock is released, the call ends.
BuildRaises(b, v) ==
    [b |-> [b EXCEPT !.pc = "done", !.res = Raised], v |-> [v EXCEPT !.locked = FALSE]]

\* The return of enhance_task_descriptions inside the rebuild (line 171).
AfterEnhance(b, v) ==
    LET e == enhance_task_descriptions(v.use_llm, task_texts(b.tasks), b.gen)
    IN  IF e.raised THEN BuildRaises(b, v)
        ELSE [b |-> [b EXCEPT !.pc = "encode", !.enhanced_texts = e.texts], v |-> v]

\* One statement of build_index_for_tasks.  With use_llm the coroutine is
\* suspended at the await of the generation call (pc "await") until the
\* call's outcome is there.
build_index_step(b, v) ==
    CASE b.pc = "acquire" ->
           [b |-> [b EXCEPT !.pc = "reset_index"], v |-> [v EXCEPT !.locked = TRUE]]
      [] b.pc = "reset_index" ->
           [b |-> [b EXCEPT !.pc = "reset_ids"], v |-> reset_index(v)]
      [] b.pc = "reset_ids" ->
           [b |-> [b EXCEPT !.pc = "enhance"], v |-> [v EXCEPT !.task_ids = <<>>]]
      [] b.pc = "enhance" ->
           IF v.use_llm THEN [b |-> [b EXCEPT !.pc = "await"], v |-> v]
           ELSE AfterEnhance(b, v)
      [] b.pc = "await" -> AfterEnhance(b, v)
      [] b.pc = "encode" ->
           IF \E i \in 1..Len(b.tasks) : b.tasks[i].id \notin DOMAIN b.enhanced_texts
           THEN BuildRaises(b, v)
           ELSE [b |-> [b EXCEPT !.pc = "store_ids",
                                 !.all_embeddings =
                                     encode([i \in 1..Len(b.tasks) |->
                                                b.enhanced_texts[b.tasks[i].id]])],
                 v |-> v]
      [] b.pc = "store_ids" ->
           [b |-> [b EXCEPT !.pc = "add"], v |-> [v EXCEPT !.task_ids = IdsOf(b.tasks)]]
      [] b.pc = "add" ->
           LET a == index_add(v.index, b.all_embeddings)
           IN  IF a.raised THEN BuildRaises(b, v)
               ELSE [b |-> [b EXCEPT !.pc = "cache"], v |-> [v EXCEPT !.index = a.index]]
      [] b.pc = "cache" ->
           [b |-> [b EXCEPT !.pc = "done", !.res = Unit],
            v |-> [v EXCEPT !.locked = FALSE,
                            !.enhanced_embeddings =
                                [k \in (DOMAIN @) \cup {b.tasks[i].id : i \in 1..Len(b.tasks)} |->
                                    IF \E i \in 1..Len(b.tasks) : b.tasks[i].id = k
                                    THEN b.all_embeddings[CHOOSE i \in 1..Len(b.tasks) :
                                                              b.tasks[i].id = k]
                                    ELSE @[k]]]]
      [] OTHER -> [b |-> b, v |-> v]

\* build_index_for_tasks(tasks) run from its first statement to its end.
RECURSIVE RunBuild(_, _)
RunBuild(b, v) ==
    IF b.pc = "done" THEN [b |-> b, v |-> v]
    ELSE LET n == build_index_step(b, v) IN RunBuild(n.b, n.v)

build_index_for_tasks(v, tasks, gen) == RunBuild(NewBuild(tasks, gen), v)

\* The last call on the index or the recommender: its arguments, the
\* outcome of its generation call (gen), what enhance_task_descriptions
\* returned in it (enh), its result (res), the task_ids it started from
\* (before), whether it rebuilt the index (rebuilt), and whether the index
\* had been built from the TaskStore's rows with no write since (synced; its
\* value when the call started is wasSynced).
NoGen == [kind |-> "raise", records |-> <<>>]

NoEnh == [raised |-> FALSE, requests |-> 0, texts |-> EmptyRows]

NoRes == [kind |-> "none", ids |-> <<>>]

\* What a repeated rebuild is compared with: the index and the ids the
\* rebuild before it left.
NoPrior == [index |-> IndexFlatL2, task_ids |-> <<>>]

IlCall(op, v, synced) ==
    [op |-> op, tasks |-> <<>>, gen |-> NoGen, enh |-> NoEnh, query |-> <<>>, k |-> 0,
     res |-> NoRes, before |-> v.task_ids, rebuilt |-> FALSE,
     wasSynced |-> synced, synced |-> synced, repeat |-> FALSE, prior |-> NoPrior]

\* The coroutines of the interleaved executions: two rebuilds and a search,
\* each on the event loop of thread th; overlapped says that the rebuild was
\* requested while the other one was under way, and good is the index and
\* task_ids as the last rebuild that stored its vectors (or raised) left
\* them.
IdleBuild == [NewBuild(<<>>, NoGen) EXCEPT !.pc = "idle"]

IdleSearch == [pc |-> "idle", query |-> <<>>, k |-> 0, labels |-> <<>>, res |-> NoRes,
               dirty |-> FALSE]

IdleProcs ==
    [B1 |-> [th |-> 1, b |-> IdleBuild, overlapped |-> FALSE],
     B2 |-> [th |-> 1, b |-> IdleBuild, overlapped |-> FALSE],
     S |-> [th |-> 1, s |-> IdleSearch],
     good |-> [index |-> IndexFlatL2, task_ids |-> <<>>]]

\* ------------------------------------------- documents (rag_system.py)
\* str(n) of a natural number: its decimal digits.
RECURSIVE Str(_)
Str(n) ==
    LET digit == <<"0", "1", "2", "3", "4", "5", "6", "7", "8", "9">>[(n % 10) + 1]
    IN  IF n < 10 THEN <<digit>> ELSE Str(n \div 10) \o <<digit>>

\* dict(row) of get_all_tasks for the row with id i and content v: the
\* columns id, title, description, tags (comma-joined) and timestamp.
task_dict(i, v) ==
    [id |-> i, title |-> <<"t">> \o Str(v),
     description |-> IF v = 1 THEN <<>> ELSE <<"d">>,
     tags |-> TagText(v), timestamp |-> <<"2", "0", "2", "5">>]

\* Faulty variant of create_task_documents: numbers the documents by
\* position.
create_task_documents_ByIndex(data) ==
    [i \in 1..Len(data) |->
        [page_content |-> <<"Type: Task\n", "Title: ">> \o data[i].title,
         metadata |-> [source_type |-> "task", task_id |-> Str(i - 1),
                       title |-> data[i].title, tags |-> data[i].tags,
                       timestamp |-> data[i].timestamp]]]

\* create_task_documents(data): one Document per task, in order.  The rows
\* of the store carry their tags as a string and no None in the columns
\* copied to the metadata, so the list branch of the tags and the None
\* filter have nothing to do.
create_task_documents(data) ==
    [i \in 1..Len(data) |->
        LET task == data[i]
        IN  [page_content |->
                 <<"Type: Task\n", "Title: ">> \o task.title
                 \o <<"\n", "Description: ">> \o task.description
                 \o <<"\n", "Tags: ">> \o task.tags
                 \o <<"\n", "Timestamp: ">> \o task.timestamp \o <<"\n", "\n">>,
             metadata |->
                 [source_type |-> "task",
                  task_id |-> IF "id" \in DOMAIN task THEN Str(task.id)
                              ELSE <<"task_index_">> \o Str(i - 1),
                  title |-> task.title, tags |-> task.tags,
                  timestamp |-> task.timestamp]]]

\* RecursiveCharacterTextSplitter(chunk_size, chunk_overlap, length_function
\* = len) with the library's defaults: separators "\n\n", "\n", " ", "",
\* keep_separator = True, strip_whitespace = True.  The sizes, 1500 and 200
\* in the code, are parameters here so that short texts are split.

\* The first position at which sep occurs in text, 0 when it does not.
Find(sep, text) ==
    LET hits == {i \in 1..(Len(text) - Len(sep) + 1) :
                    SubSeq(text, i, i + Len(sep) - 1) = sep}
    IN  IF hits = {} THEN 0 ELSE CHOOSE i \in hits : \A j \in hits : i <= j

\* "".join(pieces)
RECURSIVE Concat(_)
Concat(pieces) ==
    IF pieces = <<>> THEN <<>> ELSE pieces[1] \o Concat(Tail(pieces))

\* _split_text_with_regex(text, separator, keep_separator = True) before the
\* empty pieces are dropped: the text cut at every occurrence of the
\* separator, each separator kept at the front of the piece after it; the
\* characters of the text for the empty separator.
RECURSIVE split_text_with_regex(_, _)
split_text_with_regex(text, separator) ==
    IF separator = <<>> THEN [i \in 1..Len(text) |-> <<text[i]>>]
    ELSE LET i == Find(separator, text)
         IN  IF i = 0 THEN <<text>>
             ELSE LET rest == split_text_with_regex(
                                  SubSeq(text, i + Len(separator), Len(text)), separator)
                  IN  <<SubSeq(text, 1, i - 1), separator \o rest[1]>> \o Tail(rest)

\* The while loop of _merge_splits: pieces leave the front of current_doc
\* until what stays is no longer than chunk_overlap and has room for the
\* next piece, of length len.
RECURSIVE pop_front(_, _, _, _)
pop_front(current_doc, len, chunk_size, chunk_overlap) ==
    LET total == Len(Concat(current_doc))
    IN  IF total > chunk_overlap \/ (total + len > chunk_size /\ total > 0)
        THEN pop_front(Tail(current_doc), len, chunk_size, chunk_overlap)
        ELSE current_doc

\* _merge_splits(splits, "") from the point where current_doc has been
\* gathered: a chunk is the pieces of current_doc joined and stripped, and
\* is dropped when nothing is left of it.
RECURSIVE merge_splits(_, _, _, _)
merge_splits(splits, current_doc, chunk_size, chunk_overlap) ==
    LET text == Strip(Concat(current_doc))
        doc == IF text = <<>> THEN <<>> ELSE <<text>>
    IN  IF splits = <<>> THEN doc
        ELSE LET d == splits[1]
             IN  IF Len(Concat(current_doc)) + Len(d) > chunk_size /\ current_doc # <<>>
                 THEN doc \o merge_splits(Tail(splits),
                                          Append(pop_front(current_doc, Len(d),
                                                           chunk_size, chunk_overlap), d),
                                          chunk_size, chunk_overlap)
                 ELSE merge_splits(Tail(splits), Append(current_doc, d),
                                   chunk_size, chunk_overlap)

\* _split_text(text, separators): cut at the first separator that occurs in
\* the text; pieces shorter than chunk_size are gathered and merged, a
\* longer piece is cut with the separators that remain, or kept whole when
\* none remains.  split_loop is the for loop, good its _good_splits.
RECURSIVE split_text_rec(_, _, _, _)
RECURSIVE split_loop(_, _, _, _, _)
split_loop(splits, good, new_separators, chunk_size, chunk_overlap) ==
    LET merged == IF good = <<>> THEN <<>>
                  ELSE merge_splits(good, <<>>, chunk_size, chunk_overlap)
    IN  IF splits = <<>> THEN merged
        ELSE IF Len(splits[1]) < chunk_size
        THEN split_loop(Tail(splits), Append(good, splits[1]), new_separators,
                        chunk_size, chunk_overlap)
        ELSE merged
             \o (IF new_separators = <<>> THEN <<splits[1]>>
                 ELSE split_text_rec(splits[1], new_separators, chunk_size, chunk_overlap))
             \o split_loop(Tail(splits), <<>>, new_separators, chunk_size, chunk_overlap)

split_text_rec(text, separators, chunk_size, chunk_overlap) ==
    LET i == CHOOSE j \in 1..Len(separators) :
                 /\ separators[j] = <<>> \/ Find(separators[j], text) > 0
                 /\ \A m \in 1..(j - 1) :
                        separators[m] # <<>> /\ Find(separators[m], text) = 0
        new_separators == IF separators[i] = <<>> THEN <<>>
                          ELSE SubSeq(separators, i + 1, Len(separators))
        splits == SelectSeq(split_text_with_regex(text, separators[i]),
                            LAMBDA piece : piece # <<>>)
    IN  split_loop(splits, <<>>, new_separators, chunk_size, chunk_overlap)

\* text_splitter.split_text(text)
split_text(text, chunk_size, chunk_overlap) ==
    split_text_rec(text, << <<"\n", "\n">>, <<"\n">>, <<" ">>, <<>> >>,
                   chunk_size, chunk_overlap)

\* create_documents_from_kb(kb_dir_path) with the splitter's sizes.  kb is
\* [is_dir, files], files the .md files in the order rglob yields them, each
\* [path, text, readable] with path = <<directory, name>>; file_path.name is
\* the last element of the path.  A file that cannot be read, or whose text
\* is empty after strip(), is skipped.  The result is <<kb_documents,
\* processed_kb_files_info>>.
create_documents_from_kb(kb, chunk_size, chunk_overlap) ==
    LET chunks(file) ==
            IF ~file.readable \/ Strip(file.text) = <<>> THEN <<>>
            ELSE split_text(Strip(file.text), chunk_size, chunk_overlap)
        documents(file) ==
            [i \in 1..Len(chunks(file)) |->
                [page_content |->
                     <<"Type: Knowledge Base File\n", "Source File: ", file.path[2], "\n\n">>
                     \o chunks(file)[i],
                 metadata |-> [source_type |-> "kb_file", filename |-> file.path[2],
                               full_path |-> file.path, chunk_index |-> i - 1]]]
        info(file) ==
            IF ~file.readable \/ Strip(file.text) = <<>> THEN <<>>
            ELSE <<[name |-> file.path[2], chunks |-> Len(chunks(file))]>>
    IN  IF ~kb.is_dir THEN << <<>>, <<>> >>
        ELSE <<Concat([i \in 1..Len(kb.files) |-> documents(kb.files[i])]),
               Concat([i \in 1..Len(kb.files) |-> info(kb.files[i])])>>

\* The calls made on the document builders: create_task_documents on up to
\* MaxDocs rows of the store, and create_documents_from_kb, under every
\* pair chunk_size > chunk_overlap >= 0 up to MaxChunk, on a path that is no
\* directory, on one file with any text of up to MaxText characters, and on
\* up to MaxFiles files with distinct paths in two directories.
DocInputs ==
    LET rows == {task_dict(i, v) : i \in 1..MaxDocId, v \in Vals}
        texts == UNION {[1..n -> {"a", " ", "\n"}] : n \in 0..MaxText}
        paths == {"kb", "kb/sub"} \X {"a.md", "b.md"}
        small == {[path |-> p, text |-> t, readable |-> r] :
                      p \in paths, t \in {<<"a">>, <<"a", " ", "a">>}, r \in BOOLEAN}
        trees == {fs \in UNION {[1..n -> small] : n \in 0..MaxFiles} :
                      \A i, j \in 1..Len(fs) : i # j => fs[i].path # fs[j].path}
        kbs == {[is_dir |-> FALSE, files |-> <<>>]}
               \cup {[is_dir |-> TRUE, files |-> fs] : fs \in trees}
               \cup {[is_dir |-> TRUE,
                      files |-> <<[path |-> <<"kb", "a.md">>, text |-> t, readable |-> TRUE]>>] :
                         t \in texts}
        sizes == {c \in (1..MaxChunk) \X (0..MaxChunk) : c[2] < c[1]}
    IN  {[op |-> "input", fn |-> "create_task_documents", data |-> data,
          kb |-> [is_dir |-> FALSE, files |-> <<>>],
          chunk_size |-> 0, chunk_overlap |-> 0, res |-> <<>>] :
             data \in UNION {[1..n -> rows] : n \in 0..MaxDocs}}
        \cup
        {[op |-> "input", fn |-> "create_documents_from_kb", data |-> <<>>, kb |-> kb,
          chunk_size |-> c[1], chunk_overlap |-> c[2], res |-> <<>>] :
             kb \in kbs, c \in sizes}

\* ------------------------------------------------- the Streamlit session
\* st.session_state is [present, chat_history, chain, task_data,
\* question_key]; present says that initialize_session_state has set the
\* keys.  A chain is the list of documents its retriever was built from;
\* kind "None" is Python's None.
NoChain == [kind |-> "None", documents |-> <<>>]

NoSession ==
    [present |-> FALSE, chat_history |-> <<>>, chain |-> NoChain,
     task_data |-> <<>>, question_key |-> 0]

\* What a call of initialize_rag_system meets: whether GOOGLE_API_KEY is set,
\* the step made to fail ("vectors" for the vector store, the language model
\* or the chain, which end the call alike), and what
\* create_documents_from_kb(KB_DIRECTORY) returns (kb): for no directory, or
\* for one short file, which is one chunk at any chunk size.
Envs ==
    LET none == create_documents_from_kb([is_dir |-> FALSE, files |-> <<>>], MaxChunk, 0)
        one == create_documents_from_kb(
                   [is_dir |-> TRUE,
                    files |-> <<[path |-> <<"kb", "a.md">>, text |-> <<"a">>,
                                 readable |-> TRUE]>>], MaxChunk, 0)
    IN  {[key |-> FALSE, fail |-> "none", kb |-> none]}
        \cup {[key |-> TRUE, fail |-> f, kb |-> none] :
                 f \in {"none", "configure", "tasks", "vectors"}}
        \cup {[key |-> TRUE, fail |-> f, kb |-> one] : f \in {"none", "vectors"}}

\* Faulty variant of initialize_rag_system_call: loads the task data before
\* it looks for the API key, and hands it back when the key is missing.
initialize_rag_system_call_Eager(d, env) ==
    LET rows == get_all_tasks(d)
        ids == SelectSeq([i \in 1..d.w.seq |-> i], LAMBDA i : i \in DOMAIN rows)
        task_data == IF env.fail = "tasks" THEN <<>>
                     ELSE [k \in 1..Len(ids) |-> task_dict(ids[k], rows[ids[k]])]
        kb == env.kb
        all_documents == create_task_documents(task_data) \o kb[1]
        out(ret) == [ret |-> ret, read |-> TRUE, documents |-> all_documents]
    IN  IF ~env.key \/ env.fail = "configure" THEN out(<<NoChain, task_data, <<>>>>)
        ELSE IF all_documents = <<>> THEN out(<<NoChain, task_data, <<>>>>)
        ELSE IF env.fail = "vectors" THEN out(<<NoChain, task_data, kb[2]>>)
        ELSE out(<<[kind |-> "chain", documents |-> all_documents], task_data, kb[2]>>)

\* One call of initialize_rag_system(db, memory): ret is what it returns,
\* <<chain, task_data, processed_files_info>>, a tuple of three on every
\* path; read says that db.get_all_tasks() was called, and documents is
\* all_documents where the call got that far.  task_data is the rows of
\* get_all_tasks in the order of their ids.
initialize_rag_system_call(d, env) ==
    LET rows == get_all_tasks(d)
        ids == SelectSeq([i \in 1..d.w.seq |-> i], LAMBDA i : i \in DOMAIN rows)
        task_data == IF env.fail = "tasks" THEN <<>>
                     ELSE [k \in 1..Len(ids) |-> task_dict(ids[k], rows[ids[k]])]
        kb == env.kb
        all_documents == create_task_documents(task_data) \o kb[1]
        out(ret) == [ret |-> ret, read |-> TRUE, documents |-> all_documents]
    IN  IF ~env.key \/ env.fail = "configure"
        THEN [ret |-> <<NoChain, <<>>, <<>>>>, read |-> FALSE, documents |-> <<>>]
        ELSE IF all_documents = <<>> THEN out(<<NoChain, task_data, <<>>>>)
        ELSE IF env.fail = "vectors" THEN out(<<NoChain, task_data, kb[2]>>)
        ELSE out(<<[kind |-> "chain", documents |-> all_documents], task_data, kb[2]>>)

\* What the callers of initialize_rag_system get.
initialize_rag_system(d, env) == initialize_rag_system_call(d, env).ret

\* Faulty variant of initialize_session_state: empties the history on every
\* run of the script.
initialize_session_state_Reset(s) ==
    IF s.present THEN [s EXCEPT !.chat_history = <<>>]
    ELSE [NoSession EXCEPT !.present = TRUE]

\* initialize_session_state: sets the keys that are not there yet.
initialize_session_state(s) ==
    IF s.present THEN s ELSE [NoSession EXCEPT !.present = TRUE]

\* run_app up to the panels: the session keys, the tables, and the chain when
\* there is none (three names for the three values).
run_app(s, d, env) ==
    LET s1 == initialize_session_state(s)
        t == initialize_rag_system(initialize_tables(d), env)
    IN  [db |-> initialize_tables(d),
         ss |-> IF s1.chain.kind = "None"
                THEN [s1 EXCEPT !.chain = t[1], !.task_data = t[2]]
                ELSE s1]

\* Faulty variant of task_assistant: asks the chain a second time when the
\* first call fails, and answers with the error text when that fails too.
task_assistant_Retry(s, user_input, outcome) ==
    IF user_input = <<>> THEN [ss |-> s, invoked |-> 0, error |-> "none", rerun |-> FALSE]
    ELSE IF s.chain.kind = "None"
    THEN [ss |-> s, invoked |-> 0, error |-> "not initialized", rerun |-> FALSE]
    ELSE IF outcome = "raise"
    THEN [ss |-> [s EXCEPT !.chat_history =
                      @ \o <<[role |-> "user", content |-> user_input],
                             [role |-> "assistant", content |-> <<"error">>]>>],
          invoked |-> 2, error |-> "generation", rerun |-> FALSE]
    ELSE [ss |-> [s EXCEPT !.chat_history =
                      @ \o <<[role |-> "user", content |-> user_input],
                             [role |-> "assistant", content |-> <<"answer">>]>>,
                           !.question_key = @ + 1],
          invoked |-> 1, error |-> "none", rerun |-> TRUE]

\* Faulty variant of task_assistant: resets the input field when the chain
\* has failed as well.
task_assistant_ResetAlways(s, user_input, outcome) ==
    IF user_input = <<>> THEN [ss |-> s, invoked |-> 0, error |-> "none", rerun |-> FALSE]
    ELSE IF s.chain.kind = "None"
    THEN [ss |-> s, invoked |-> 0, error |-> "not initialized", rerun |-> FALSE]
    ELSE LET asked == [s EXCEPT !.chat_history =
                           Append(@, [role |-> "user", content |-> user_input]),
                                !.question_key = @ + 1]
         IN  IF outcome = "raise"
             THEN [ss |-> asked, invoked |-> 1, error |-> "generation", rerun |-> FALSE]
             ELSE [ss |-> [asked EXCEPT
                               !.chat_history =
                                   Append(@, [role |-> "assistant", content |-> <<"answer">>])],
                   invoked |-> 1, error |-> "none", rerun |-> TRUE]

\* task_assistant(chain) with the Send button pressed, chain being
\* st.session_state.chain: user_input is the text of the input field and
\* outcome what chain.invoke does, "answer" or "raise".  invoked counts the
\* calls of chain.invoke, error is the st.error shown, rerun says that
\* st.rerun() was reached.
task_assistant(s, user_input, outcome) ==
    IF user_input = <<>> THEN [ss |-> s, invoked |-> 0, error |-> "none", rerun |-> FALSE]
    ELSE IF s.chain.kind = "None"
    THEN [ss |-> s, invoked |-> 0, error |-> "not initialized", rerun |-> FALSE]
    ELSE LET asked == [s EXCEPT !.chat_history =
                           Append(@, [role |-> "user", content |-> user_input])]
         IN  IF outcome = "raise"
             THEN [ss |-> asked, invoked |-> 1, error |-> "generation", rerun |-> FALSE]
             ELSE [ss |-> [asked EXCEPT
                               !.chat_history =
                                   Append(@, [role |-> "assistant", content |-> <<"answer">>]),
                               !.question_key = @ + 1],
                   invoked |-> 1, error |-> "none", rerun |-> TRUE]

\* The tags of the add and edit forms: [tag.strip() for tag in
\* tags_string.split(",") if tag.strip()], as the content with that tag list.
form_tags(tags_string) ==
    LET parts == Split(tags_string)
        tags == SelectSeq([i \in 1..Len(parts) |-> Strip(parts[i])],
                          LAMBDA tag : tag # <<>>)
    IN  CHOOSE v \in Vals : TagsOf(v) = tags

\* The two statements that end add_new_task and update_task of the UI layer:
\* st.session_state.chain, _ = chain_initialize_func(), two names for the
\* tuple the function returns (ValueError when it does not have two
\* elements, nothing assigned), and return True.
reinitialize(s, t) ==
    IF Len(t) # 2 THEN [ss |-> s, res |-> Raised]
    ELSE [ss |-> [s EXCEPT !.chain = t[1]], res |-> [kind |-> "True", id |-> 0]]

\* add_new_task(db, title, description, tags_string, chain_initialize_func)
\* of the UI layer; wrote is what db.add_task returned, its result being
\* ignored, and an exception of it is the call's.
add_new_task(s, d, tags_string, fail, env) ==
    LET w == add_task(d, form_tags(tags_string), fail, FALSE)
        r == reinitialize(s, initialize_rag_system(w.db, env))
    IN  IF w.res = Raised THEN [ss |-> s, db |-> w.db, res |-> Raised, wrote |-> w.res]
        ELSE [ss |-> r.ss, db |-> w.db, res |-> r.res, wrote |-> w.res]

\* update_task(db, task_id, title, description, tags_string,
\* chain_initialize_func) of the UI layer.
ui_update_task(s, d, task_id, tags_string, fail, env) ==
    LET w == update_task(d, task_id, form_tags(tags_string), fail, FALSE)
        r == reinitialize(s, initialize_rag_system(w.db, env))
    IN  IF w.res = Raised THEN [ss |-> s, db |-> w.db, res |-> Raised, wrote |-> w.res]
        ELSE [ss |-> r.ss, db |-> w.db, res |-> r.res, wrote |-> w.res]

\* No call of initialize_rag_system observed: key and fail are what a call
\* met, call what it did.
NoInit ==
    [key |-> FALSE, fail |-> "none",
     call |-> [ret |-> <<NoChain, <<>>, <<>>>>, read |-> FALSE, documents |-> <<>>]]

\* The last step of the UI layer: what was done, with which input, what it
\* returned, the history and the question_key before it, what chain.invoke did, what db.add_task
\* or db.update_task returned (wrote), and the chain that
\* chain_initialize_func built after the write (built).
UiStep(op, s) ==
    [op |-> op, res |-> None, before |-> s.chat_history,
     key_before |-> s.question_key, input |-> <<>>,
     outcome |-> "none", invoked |-> 0, error |-> "none", rerun |-> FALSE,
     wrote |-> None, built |-> NoChain, init |-> NoInit]

\* ---------------------------------------------------------------- the state
FreshStore == [tasks |-> EmptyRows, seq |-> 0, version |-> 0]

FreshCache == [version |-> 0, tasks |-> EmptyRows, loaded |-> FALSE]

\* The last call: op and res, the committed store (pre) and the cache (cpre)
\* it started from, and for a cache read whether it called get_all_tasks
\* (got), what it returned (served) and whether a successful add/update had
\* happened since the previous cache read (afterMut); for get_tasks_by_tags
\* and for get_tasks with a tag the tag it was called with (arg); for
\* get_tasks whether the call before it was truncate_tables (afterTruncate).
Called(op, res) ==
    [op |-> op, res |-> res, pre |-> db.c, cpre |-> cache,
     got |-> FALSE, served |-> EmptyRows, afterMut |-> FALSE, arg |-> <<>>,
     afterTruncate |-> FALSE]

NoCallArgs == [name |-> "none", id |-> 0, val |-> 0]

IdleWriter == [pc |-> "idle", call |-> NoCallArgs, res |-> None, fail |-> "none",
               keep |-> FALSE, pre |-> FreshStore]

IdleReader == [pc |-> "idle", v |-> 0, moved |-> FALSE]

NoObs == [valid |-> FALSE, version |-> 0, tasks |-> EmptyRows, pre |-> FreshStore]

\* The database as RAGDatabase.initialize_db leaves a new file, and the
\* session's cache as _init_cache_state creates it.  hist is the ghost of
\* the cache layer: the version and the rows its latest reload read, and
\* whether an add/update has succeeded since its latest read.
\* The document builders keep no state: dl is the call asked for (op
\* "input") and then the call made, with its result.
NoDocs == [op |-> "none", fn |-> "none", data |-> <<>>,
           kb |-> [is_dir |-> FALSE, files |-> <<>>],
           chunk_size |-> 0, chunk_overlap |-> 0, res |-> <<>>]

InitWith(docs) ==
    /\ db = initialize_tables([c |-> FreshStore, w |-> FreshStore, txn |-> FALSE])
    /\ cache = FreshCache
    /\ last = [op |-> "init", res |-> Unit, pre |-> db.c, cpre |-> FreshCache,
               got |-> FALSE, served |-> EmptyRows, afterMut |-> FALSE,
               arg |-> <<>>, afterTruncate |-> FALSE]
    /\ hist = [seen |-> 0, snap |-> EmptyRows, pending |-> FALSE]
    /\ wr = IdleWriter
    /\ rd = IdleReader
    /\ obs = NoObs
    /\ ts = <<>>
    /\ vi = NewIndex(TRUE)
    /\ il = IlCall("init", NewIndex(TRUE), FALSE)
    /\ pr = IdleProcs
    /\ dl = docs
    /\ ss = NoSession
    /\ ul = UiStep("none", NoSession)

Init == InitWith(NoDocs)

InitDocs == \E docs \in DocInputs : InitWith(docs)

Succeeded(res) == res.kind \in {"rowid", "task"}

\* keep matters only when a commit is made to fail.
Keeps(fail) == IF fail \in {"write_commit", "incr_commit"} THEN BOOLEAN ELSE {FALSE}

Mutations == {"add_task", "update_task"}

CacheReads == {"load_cache", "get_tasks"}

AddTask ==
    \E val \in Vals, fail \in FailPoints : \E keep \in Keeps(fail) :
        /\ db.c.seq < MaxId
        /\ db.c.version < MaxVersion
        /\ LET r == add_task(db, val, fail, keep)
           IN  /\ db' = r.db
               /\ last' = Called("add_task", r.res)
               /\ hist' = [hist EXCEPT !.pending = @ \/ (Succeeded(r.res) /\ cache.loaded)]
        /\ UNCHANGED <<cache, wr, rd, obs, ixvars, uivars>>

UpdateTask ==
    \E id \in Ids, val \in Vals, fail \in FailPoints : \E keep \in Keeps(fail) :
        /\ db.c.version < MaxVersion
        /\ LET r == update_task(db, id, val, fail, keep)
           IN  /\ db' = r.db
               /\ last' = Called("update_task", r.res)
               /\ hist' = [hist EXCEPT !.pending = @ \/ (Succeeded(r.res) /\ cache.loaded)]
        /\ UNCHANGED <<cache, wr, rd, obs, ixvars, uivars>>

GetAllTasks ==
    /\ last' = [Called("get_all_tasks", Unit) EXCEPT !.served = get_all_tasks(db)]
    /\ UNCHANGED <<db, cache, hist, wr, rd, obs, ixvars, uivars>>

GetTasksByTags ==
    \E tag \in FilterTags :
        /\ last' = [Called("get_tasks_by_tags", Unit) EXCEPT
                        !.served = get_tasks_by_tags(db, tag), !.arg = tag]
        /\ UNCHANGED <<db, cache, hist, wr, rd, obs, ixvars, uivars>>

GetCacheVersion ==
    /\ last' = Called("get_cache_version", [kind |-> "int", id |-> get_cache_version(db)])
    /\ UNCHANGED <<db, cache, hist, wr, rd, obs, ixvars, uivars>>

TruncateTables ==
    /\ db' = truncate_tables(db)
    /\ last' = Called("truncate_tables", Unit)
    /\ UNCHANGED <<cache, hist, wr, rd, obs, ixvars, uivars>>

InitializeTables ==
    /\ db' = initialize_tables(db)
    /\ last' = Called("initialize_tables", Unit)
    /\ UNCHANGED <<cache, hist, wr, rd, obs, ixvars, uivars>>

\* The failures tried on the records of an import: none, the INSERT failing
\* (add_task returns None, the loop goes on) and the increment failing
\* (add_task raises, the loop ends).
ImportFails == {"none", "write", "incr"}

JsonFiles ==
    {[kind |-> k, data |-> <<>>] : k \in {"missing", "invalid", "undecodable"}} \cup
    {[kind |-> "data", data |-> f] :
        f \in UNION {[1..n -> Vals \X ImportFails] : n \in 0..MaxJson}}

PopulateFromJson ==
    \E file \in JsonFiles :
        /\ db.c.seq + Len(file.data) <= MaxId
        /\ db.c.version + Len(file.data) <= MaxVersion
        /\ LET r == populate_from_json(db, file, FALSE)
           IN  /\ db' = r.db
               /\ last' = [Called("populate_from_json", r.res) EXCEPT !.arg = file.kind]
        /\ UNCHANGED <<cache, hist, wr, rd, obs, ixvars, uivars>>

AfterLoad(r) ==
    [hist EXCEPT !.seen = IF r.got THEN r.seen ELSE @,
                 !.snap = IF r.got THEN r.rows ELSE @,
                 !.pending = FALSE]

LoadCache ==
    LET r == load_cache(cache, db)
    IN  /\ cache' = r.cache
        /\ last' = [Called("load_cache", Unit) EXCEPT
                        !.got = r.got, !.afterMut = hist.pending]
        /\ hist' = AfterLoad(r)
        /\ UNCHANGED <<db, wr, rd, obs, ixvars, uivars>>

GetTasks ==
    \E filter \in {<<>>, All} \cup FilterTags :
        LET r == load_cache(cache, db)
        IN  /\ cache' = r.cache
            /\ last' = [Called("get_tasks",
                               [kind |-> IF filter \in {<<>>, All} THEN "all" ELSE "tag",
                                id |-> 0]) EXCEPT
                            !.got = r.got, !.afterMut = hist.pending,
                            !.served = cached_tasks(r.cache, filter),
                            !.arg = IF filter \in {<<>>, All} THEN <<>> ELSE filter,
                            !.afterTruncate = (last.op = "truncate_tables")]
            /\ hist' = AfterLoad(r)
            /\ UNCHANGED <<db, wr, rd, obs, ixvars, uivars>>

InvalidateCache ==
    /\ cache' = invalidate_cache(cache)
    /\ last' = Called("invalidate_cache", Unit)
    /\ UNCHANGED <<db, hist, wr, rd, obs, ixvars, uivars>>

\* reset_cache_version calls self.db.reset_cache_version(), which
\* TaskDatabase does not define: AttributeError, nothing is written.
ResetCacheVersion ==
    /\ last' = Called("reset_cache_version", Raised)
    /\ UNCHANGED <<db, cache, hist, wr, rd, obs, ixvars, uivars>>

Next ==
    \/ AddTask
    \/ UpdateTask
    \/ GetAllTasks
    \/ GetTasksByTags
    \/ GetCacheVersion
    \/ TruncateTables
    \/ InitializeTables
    \/ PopulateFromJson
    \/ LoadCache
    \/ GetTasks
    \/ InvalidateCache
    \/ ResetCacheVersion

Spec == Init /\ [][Next]_vars

\* ------------------------------------------------- interleaved executions
\* A writer session runs add_task / update_task statement by statement on
\* its connection db while a second session, on a connection of its own,
\* runs load_cache: it reads the committed image, first the version
\* (get_cache_version), then the tasks (get_all_tasks).

\* What a second connection sees of the writer's database.
OtherConn(d) == [c |-> d.c, w |-> d.c, txn |-> FALSE]

\* The call writes something a reader can tell from the state before it.
ChangesTable(call, pre) ==
    \/ call.name = "add_task"
    \/ /\ call.name = "update_task"
       /\ call.id \in DOMAIN pre.tasks
       /\ pre.tasks[call.id] # call.val

W_Call ==
    \E name \in Mutations, id \in Ids, val \in Vals, fail \in FailPoints :
      \E keep \in Keeps(fail) :
        /\ wr.pc = "idle"
        /\ name = "add_task" => (id = 1 /\ db.c.seq < MaxId)
        /\ db.c.version < MaxVersion
        /\ wr' = [pc |-> "begin",
                  call |-> [name |-> name, id |-> IF name = "add_task" THEN 0 ELSE id,
                            val |-> val],
                  res |-> None, fail |-> fail, keep |-> keep, pre |-> db.c]
        /\ obs' = NoObs
        /\ UNCHANGED <<db, cache, last, hist, rd, ixvars, uivars>>

W_Step ==
    /\ wr.pc \notin {"idle", "done"}
    /\ LET w == version_aware_step([pc |-> wr.pc, db |-> db, call |-> wr.call,
                                    res |-> wr.res, fail |-> wr.fail,
                                    keep |-> wr.keep])
       IN  /\ db' = w.db
           /\ wr' = [wr EXCEPT !.pc = w.pc, !.res = w.res]
           /\ rd' = [rd EXCEPT !.moved = @ \/ (rd.pc = "tasks" /\ w.db.c # db.c)]
    /\ obs' = NoObs
    /\ UNCHANGED <<cache, last, hist, ixvars, uivars>>

\* The call returns (or raises) to the writer session.
W_Return ==
    /\ wr.pc = "done"
    /\ wr' = IdleWriter
    /\ obs' = NoObs
    /\ UNCHANGED <<db, cache, last, hist, rd, ixvars, uivars>>

R_ReadVersion ==
    /\ rd.pc = "idle"
    /\ rd' = [pc |-> "tasks", v |-> get_cache_version(OtherConn(db)), moved |-> FALSE]
    /\ obs' = NoObs
    /\ UNCHANGED <<db, cache, last, hist, wr, ixvars, uivars>>

R_ReadTasks ==
    /\ rd.pc = "tasks"
    /\ LET r == reload(cache, rd.v, OtherConn(db))
       IN  /\ cache' = r.cache
           /\ hist' = AfterLoad(r)
           /\ obs' = IF r.got
                     THEN [valid |-> /\ ~rd.moved
                                     /\ wr.pc \notin {"idle", "done"}
                                     /\ ChangesTable(wr.call, wr.pre),
                           version |-> r.seen, tasks |-> r.rows, pre |-> wr.pre]
                     ELSE NoObs
    /\ rd' = IdleReader
    /\ UNCHANGED <<db, last, wr, ixvars, uivars>>

NextConc ==
    \/ W_Call
    \/ W_Step
    \/ W_Return
    \/ R_ReadVersion
    \/ R_ReadTasks

SpecConc == Init /\ [][NextConc]_vars

\* ------------------------------------------------- calls on the index
dbvars == <<db, cache, last, hist, wr, rd, obs>>

BuildResult(b) == [kind |-> b.res.kind, ids |-> <<>>]

NewVectorIndex ==
    \E use_llm \in BOOLEAN :
        /\ vi' = NewIndex(use_llm)
        /\ il' = IlCall("new_index", NewIndex(use_llm), FALSE)
        /\ UNCHANGED <<dbvars, uivars, ts, pr>>

EnhanceTaskDescriptions ==
    \E tasks \in TaskLists, gen \in GenOutcomes :
        /\ il' = [IlCall("enhance_task_descriptions", vi, FALSE) EXCEPT
                      !.tasks = tasks, !.gen = gen,
                      !.enh = enhance_task_descriptions(vi.use_llm, task_texts(tasks), gen)]
        /\ UNCHANGED <<dbvars, uivars, ts, vi, pr>>

\* repeat: the call before this one was a rebuild on the same object with
\* the same list and the same outcome of the generation call.
BuildIndexForTasks ==
    \E tasks \in TaskLists, gen \in GenOutcomes :
        LET r == build_index_for_tasks(vi, tasks, gen)
            again == il.op = "build_index_for_tasks" /\ il.tasks = tasks /\ il.gen = gen
        IN  /\ vi' = r.v
            /\ il' = [IlCall("build_index_for_tasks", vi, FALSE) EXCEPT
                          !.tasks = tasks, !.gen = gen,
                          !.enh = enhance_task_descriptions(vi.use_llm, task_texts(tasks), gen),
                          !.res = BuildResult(r.b), !.rebuilt = (r.b.pc = "done"),
                          !.repeat = again,
                          !.prior = IF again THEN [index |-> vi.index, task_ids |-> vi.task_ids]
                                    ELSE NoPrior]
            /\ UNCHANGED <<dbvars, uivars, ts, pr>>

Search ==
    \E query \in Queries, k \in 0..MaxK :
        /\ il' = [IlCall("search", vi, FALSE) EXCEPT
                      !.query = query, !.k = k, !.res = search(vi, query, k)]
        /\ UNCHANGED <<dbvars, uivars, ts, vi, pr>>

NextIndex ==
    \/ NewVectorIndex
    \/ EnhanceTaskDescriptions
    \/ BuildIndexForTasks
    \/ Search

SpecIndex == Init /\ [][NextIndex]_vars

\* ------------------------------------------------------ TaskRecommender
\* TaskStore: the rows of the tasks table in id order; the table is only
\* ever emptied as a whole, so the ids are 1..Len(ts).
get_all_tasks_of(rows) == rows

\* SELECT * FROM tasks WHERE id IN (ids): the matching rows in id order.
get_tasks_by_ids(rows, ids) ==
    SelectSeq(rows, LAMBDA t : \E i \in 1..Len(ids) : ids[i] = t.id)

\* find_relevant_tasks(query, limit): rebuild from all the rows, search, and
\* fetch the rows found; an exception of the rebuild or of the search is
\* the call's.  b is the rebuild it ran.
find_relevant_tasks(rows, v, query, limit, gen) ==
    LET built == build_index_for_tasks(v, get_all_tasks_of(rows), gen)
        found == search(built.v, query, limit)
    IN  IF built.b.res = Raised
        THEN [v |-> built.v, b |-> built.b, res |-> [kind |-> "raised", ids |-> <<>>]]
        ELSE IF found.kind = "raised"
        THEN [v |-> built.v, b |-> built.b, res |-> found]
        ELSE [v |-> built.v, b |-> built.b,
              res |-> [kind |-> "tasks",
                       ids |-> IdsOf(get_tasks_by_ids(rows, found.ids))]]

NewRecommender ==
    \E use_llm \in BOOLEAN :
        /\ vi' = NewIndex(use_llm)
        /\ il' = IlCall("new_recommender", NewIndex(use_llm), FALSE)
        /\ UNCHANGED <<dbvars, uivars, ts, pr>>

RecommenderAddTask ==
    /\ Len(ts) < MaxTasks
    /\ ts' = Append(ts, TaskOf(Len(ts) + 1))
    /\ il' = IlCall("add_task", vi, FALSE)
    /\ UNCHANGED <<dbvars, uivars, vi, pr>>

DeleteAllTasks ==
    /\ ts' = <<>>
    /\ il' = IlCall("delete_all_tasks", vi, FALSE)
    /\ UNCHANGED <<dbvars, uivars, vi, pr>>

FindRelevantTasks ==
    \E query \in Queries, limit \in 0..MaxK, gen \in GenOutcomes :
        LET r == find_relevant_tasks(ts, vi, query, limit, gen)
        IN  /\ vi' = r.v
            /\ il' = [IlCall("find_relevant_tasks", vi, il.synced) EXCEPT
                          !.query = query, !.k = limit, !.gen = gen, !.res = r.res,
                          !.rebuilt = (r.b.pc = "done"), !.synced = TRUE]
            /\ UNCHANGED <<dbvars, uivars, ts, pr>>

NextRecommender ==
    \/ NewRecommender
    \/ RecommenderAddTask
    \/ DeleteAllTasks
    \/ FindRelevantTasks

SpecRecommender == Init /\ [][NextRecommender]_vars

\* ------------------------------------- interleaved calls on the index
\* Two build_index_for_tasks coroutines and one search coroutine.  Each runs
\* on the event loop of its thread th.  Coroutines of one loop run one at a
\* time and change over only where one is suspended (at the await of the
\* generation call); a coroutine waiting for the threading.Lock keeps its
\* thread.  Coroutines of different threads interleave statement by
\* statement.
Builders == {"B1", "B2"}

Threads == {1, 2}

ConcLists == { ListOf({}), ListOf({1}), ListOf({1, 2}) }

ConcGens == { NoGen, [kind |-> "text", records |-> <<RecordAt(1), RecordAt(2)>>] }

InRegion(b) == b.pc \notin {"idle", "acquire", "done"}

Running(p) ==
    IF p = "S" THEN pr.S.s.pc \notin {"idle", "done"}
    ELSE pr[p].b.pc \notin {"idle", "await", "done"}

FreeOn(p, th) ==
    \A q \in (Builders \cup {"S"}) \ {p} : pr[q].th = th => ~Running(q)

\* The two reads of search (lines 193 and 196), each marked dirty when what
\* it reads is not what the last rebuild that stored its vectors left.
search_step(s, v, good) ==
    IF s.pc = "search"
    THEN LET r == index_search(v.index, encode(<<s.query>>)[1], s.k)
         IN  IF r.raised
             THEN [s EXCEPT !.pc = "done", !.res = [kind |-> "raised", ids |-> <<>>]]
             ELSE [s EXCEPT !.pc = "collect", !.labels = r.labels,
                            !.dirty = (v.index # good.index)]
    ELSE [s EXCEPT !.pc = "done", !.res = collect_ids(v.task_ids, s.labels),
                   !.dirty = (@ \/ v.task_ids # good.task_ids)]

B_Call(p) ==
    /\ pr[p].b.pc = "idle"
    /\ \E th \in (IF p = "B1" THEN {1} ELSE Threads), tasks \in ConcLists, gen \in ConcGens :
          /\ FreeOn(p, th)
          /\ pr' = [pr EXCEPT ![p] = [th |-> th, b |-> NewBuild(tasks, gen),
                                      overlapped |->
                                          \E q \in Builders \ {p} :
                                              pr[q].b.pc \notin {"idle", "done"}]]
    /\ UNCHANGED <<dbvars, uivars, ts, vi, il>>

B_Step(p) ==
    /\ pr[p].b.pc \notin {"idle", "done"}
    /\ FreeOn(p, pr[p].th)
    /\ pr[p].b.pc = "acquire" => CanAcquire(vi)
    /\ LET n == build_index_step(pr[p].b, vi)
       IN  /\ vi' = n.v
           /\ pr' = [pr EXCEPT ![p].b = n.b,
                               !.good = IF n.b.pc \in {"cache", "done"}
                                        THEN [index |-> n.v.index, task_ids |-> n.v.task_ids]
                                        ELSE @]
    /\ UNCHANGED <<dbvars, uivars, ts, il>>

S_Call ==
    /\ pr.S.s.pc = "idle"
    /\ \E th \in Threads, query \in Queries, k \in 1..2 :
          /\ FreeOn("S", th)
          /\ pr' = [pr EXCEPT !.S = [th |-> th,
                                     s |-> [IdleSearch EXCEPT !.pc = "search",
                                                              !.query = query, !.k = k]]]
    /\ UNCHANGED <<dbvars, uivars, ts, vi, il>>

S_Step ==
    /\ pr.S.s.pc \in {"search", "collect"}
    /\ FreeOn("S", pr.S.th)
    /\ pr' = [pr EXCEPT !.S.s = search_step(pr.S.s, vi, pr.good)]
    /\ UNCHANGED <<dbvars, uivars, ts, vi, il>>

NextIndexConc ==
    \/ B_Call("B1")
    \/ B_Call("B2")
    \/ B_Step("B1")
    \/ B_Step("B2")
    \/ S_Call
    \/ S_Step

SpecIndexConc == Init /\ [][NextIndexConc]_vars

\* The same executions with every coroutine that can run given its turn: the
\* event loop resumes a coroutine whose await has its result, and a thread
\* that is not blocked goes on.
SpecIndexConcFair ==
    /\ SpecIndexConc
    /\ WF_vars(B_Step("B1"))
    /\ WF_vars(B_Step("B2"))
    /\ WF_vars(S_Step)

\* ------------------------------------------------ the document builders
CreateTaskDocuments ==
    /\ dl.op = "input"
    /\ dl.fn = "create_task_documents"
    /\ dl' = [dl EXCEPT !.op = dl.fn, !.res = create_task_documents(dl.data)]
    /\ UNCHANGED <<dbvars, ixvars, ss, ul>>

CreateDocumentsFromKb ==
    /\ dl.op = "input"
    /\ dl.fn = "create_documents_from_kb"
    /\ dl' = [dl EXCEPT !.op = dl.fn,
                        !.res = create_documents_from_kb(dl.kb, dl.chunk_size,
                                                         dl.chunk_overlap)]
    /\ UNCHANGED <<dbvars, ixvars, ss, ul>>

NextDocs ==
    \/ CreateTaskDocuments
    \/ CreateDocumentsFromKb

SpecDocs == InitDocs /\ [][NextDocs]_vars

\* ------------------------------------------------------ the UI layer
\* One run of the script each: run_app up to the panels, then the button
\* that was pressed.  The forms hand over one of two tag strings.
UiTagStrings == { <<"A", ",">>, <<"A", "B", ",", " ", "a">> }

UiFails == {"none", "write", "incr"}

RunApp ==
    \E env \in Envs :
        LET r == run_app(ss, db, env)
        IN  /\ ss' = r.ss
            /\ db' = r.db
            /\ ul' = UiStep("run_app", ss)
            /\ UNCHANGED <<cache, last, hist, wr, rd, obs, ixvars, dl>>

Send ==
    \E env \in Envs, user_input \in {<<>>} \cup Queries, outcome \in {"answer", "raise"} :
        LET r == run_app(ss, db, env)
            a == task_assistant(r.ss, user_input, outcome)
        IN  /\ Len(ss.chat_history) + 2 <= MaxChat
            /\ ss' = a.ss
            /\ db' = r.db
            /\ ul' = [UiStep("send", ss) EXCEPT
                          !.input = user_input, !.outcome = outcome,
                          !.invoked = a.invoked, !.error = a.error, !.rerun = a.rerun]
            /\ UNCHANGED <<cache, last, hist, wr, rd, obs, ixvars, dl>>

AddNewTask ==
    \E env \in Envs, tags_string \in UiTagStrings, fail \in UiFails :
        LET r == run_app(ss, db, env)
            a == add_new_task(r.ss, r.db, tags_string, fail, env)
        IN  /\ db.c.seq < MaxId
            /\ db.c.version < MaxVersion
            /\ ss' = a.ss
            /\ db' = a.db
            /\ ul' = [UiStep("add_new_task", ss) EXCEPT
                          !.input = tags_string, !.res = a.res, !.wrote = a.wrote,
                          !.built = initialize_rag_system(a.db, env)[1]]
            /\ UNCHANGED <<cache, last, hist, wr, rd, obs, ixvars, dl>>

UiUpdateTask ==
    \E env \in Envs, task_id \in DOMAIN db.c.tasks, tags_string \in UiTagStrings,
       fail \in UiFails :
        LET r == run_app(ss, db, env)
            a == ui_update_task(r.ss, r.db, task_id, tags_string, fail, env)
        IN  /\ db.c.version < MaxVersion
            /\ ss' = a.ss
            /\ db' = a.db
            /\ ul' = [UiStep("update_task", ss) EXCEPT
                          !.input = tags_string, !.res = a.res, !.wrote = a.wrote,
                          !.built = initialize_rag_system(a.db, env)[1]]
            /\ UNCHANGED <<cache, last, hist, wr, rd, obs, ixvars, dl>>

\* initialize_rag_system called on the store as it stands.
InitializeRagSystem ==
    \E env \in Envs :
        /\ ul' = [UiStep("initialize_rag_system", ss) EXCEPT
                      !.init = [key |-> env.key, fail |-> env.fail,
                                call |-> initialize_rag_system_call(db, env)]]
        /\ UNCHANGED <<dbvars, ixvars, dl, ss>>

\* The assistant panel, and the task panel.
NextChat ==
    \/ RunApp
    \/ Send

SpecChat == Init /\ [][NextChat]_vars

NextUi ==
    \/ RunApp
    \/ AddNewTask
    \/ UiUpdateTask

SpecUi == Init /\ [][NextUi]_vars

\* The store written by the task layer, and the RAG system initialized on it.
NextInit ==
    \/ AddTask
    \/ UpdateTask
    \/ TruncateTables
    \/ InitializeRagSystem

SpecInit == Init /\ [][NextInit]_vars

\* ------------------------------------------------------------------ claims
\* C1: every add_task or update_task call that succeeds (returns a row id,
\* returns the updated task) leaves the cache version exactly 1 above its
\* value just before the call.
C1_SuccessBumpsByOne ==
    (last.op \in Mutations /\ Succeeded(last.res))
        => db.c.version = last.pre.version + 1

C1_Witness ==
    /\ last.op = "update_task"
    /\ Succeeded(last.res)
    /\ last.pre.version = 2
    /\ db.c.version = 3

\* C2 (as claimed): add_task and update_task are all-or-nothing; a call in
\* which a step failed leaves neither its task write nor its version bump
\* persisted.
C2_AllOrNothing ==
    (last.op \in Mutations /\ ~Succeeded(last.res)) => db.c = last.pre

\* C4: once the cache has been loaded and an add_task or update_task has
\* succeeded, the next get_tasks() holds and returns exactly the store's
\* current tasks.
C4_ReadAfterMutationIsFresh ==
    (last.op = "get_tasks" /\ last.afterMut)
        => /\ cache.tasks = db.c.tasks
           /\ last.res.kind = "all" => last.served = db.c.tasks

C4_Witness ==
    /\ last.op = "get_tasks"
    /\ last.afterMut
    /\ last.res.kind = "all"
    /\ last.cpre.loaded
    /\ last.cpre.tasks # db.c.tasks
    /\ last.cpre.tasks # EmptyRows
    /\ last.served = db.c.tasks

\* C5 (as claimed): a failed add_task or update_task returns None/False
\* without raising and leaves the tasks table and the cache version as they
\* were before the call.
C5_FailedMutationChangesNothing ==
    (last.op \in Mutations /\ ~Succeeded(last.res))
        => /\ last.res # Raised
           /\ db.c.tasks = last.pre.tasks
           /\ db.c.version = last.pre.version

C8_CacheIsOneSnapshot == cache.tasks = hist.snap

C8_Witness ==
    /\ last.op \in CacheReads
    /\ last.got
    /\ \E i \in DOMAIN last.cpre.tasks : i \notin DOMAIN cache.tasks
    /\ cache.tasks # EmptyRows

\* C9: loaded implies that the cached version is the one get_cache_version
\* returned during the latest reload, hence never the initial 0.
C9_LoadedVersionIsObserved ==
    cache.loaded => (cache.version = hist.seen /\ cache.version # 0)

C9_Witness ==
    /\ cache.loaded
    /\ last.op \in CacheReads
    /\ last.got
    /\ last.cpre.loaded
    /\ cache.version = 3

\* C10: a cache read with the cache loaded at the store's version serves the
\* cached tasks without calling get_all_tasks and leaves task_cache as it
\* was; with differing versions it reloads and ends loaded at the store's
\* version.
C10_HitServesMissReloads ==
    last.op \in CacheReads =>
        IF last.cpre.loaded /\ last.cpre.version = last.pre.version
        THEN /\ ~last.got
             /\ cache = last.cpre
             /\ (last.op = "get_tasks" /\ last.res.kind = "all")
                    => last.served = last.cpre.tasks
        ELSE last.cpre.version # last.pre.version
                 => /\ last.got
                    /\ cache.loaded
                    /\ cache.version = db.c.version

C10_Witness ==
    /\ last.op = "get_tasks"
    /\ last.res.kind = "all"
    /\ last.cpre.loaded
    /\ last.cpre.version = last.pre.version
    /\ last.served # EmptyRows
    /\ last.served # db.c.tasks

\* C11: invalidate_cache leaves the cache not loaded, and a cache read that
\* starts from a cache that is not loaded calls get_all_tasks, whatever the
\* two versions are, and ends loaded with the store's tasks; get_tasks
\* without a filter then serves exactly those tasks.
C11_InvalidateForcesReload ==
    /\ last.op = "invalidate_cache" => ~cache.loaded
    /\ (last.op \in CacheReads /\ ~last.cpre.loaded)
           => /\ last.got
              /\ cache.loaded
              /\ cache.tasks = db.c.tasks
              /\ (last.op = "get_tasks" /\ last.res.kind = "all")
                     => last.served = db.c.tasks

C11_Witness ==
    /\ last.op = "get_tasks"
    /\ last.res.kind = "all"
    /\ ~last.cpre.loaded
    /\ last.cpre.version = last.pre.version
    /\ last.got
    /\ cache.loaded
    /\ cache.tasks # last.cpre.tasks

\* C13 (as claimed): get_tasks_by_tags(tag) returns exactly the stored tasks
\* whose comma-separated tag list has tag as one of its elements.
C13_TagIsWholeElement ==
    last.op = "get_tasks_by_tags" =>
        /\ DOMAIN last.served =
               {i \in DOMAIN last.pre.tasks :
                    InSeq(last.arg, Split(TagText(last.pre.tasks[i])))}
        /\ \A i \in DOMAIN last.served : last.served[i] = last.pre.tasks[i]

\* C12 (as claimed): a query made when no task has been written since the
\* index was last built from the store does not rebuild the index.
C12_UnchangedStoreNoRebuild ==
    (il.op = "find_relevant_tasks" /\ il.wasSynced) => ~il.rebuilt

\* C14: when build_index_for_tasks(tasks) has ended, the index holds as many
\* vectors as task_ids holds ids and as tasks holds tasks, whatever the
\* index held before; for a list that is not empty the call returns.
C14_CountsAgree ==
    il.op = "build_index_for_tasks" =>
        /\ Len(vi.index) = Len(il.tasks)
        /\ Len(vi.task_ids) = Len(il.tasks)
        /\ Len(il.tasks) > 0 => il.res.kind = "ok"

C14_Witness ==
    /\ il.op = "build_index_for_tasks"
    /\ il.res.kind = "ok"
    /\ Len(il.tasks) = 1
    /\ Len(il.before) = 2
    /\ Len(vi.index) = 1

\* C17: whatever the task list and the outcome of the generation call, the
\* mapping enhance_task_descriptions returns has exactly the input ids as
\* its keys.
C17_KeysAreInputIds ==
    il.op \in {"enhance_task_descriptions", "build_index_for_tasks"} =>
        /\ ~il.enh.raised
        /\ DOMAIN il.enh.texts = {il.tasks[i].id : i \in 1..Len(il.tasks)}

C17_Witness ==
    /\ il.op = "enhance_task_descriptions"
    /\ vi.use_llm
    /\ il.gen.kind = "text"
    /\ Len(il.tasks) = 2
    /\ Len(il.gen.records) = 1
    /\ il.enh.requests = 1
    /\ DOMAIN il.enh.texts = {1, 2}

C19_SearchBounds ==
    il.op = "search" =>
        /\ Len(vi.index) = 0 => (il.res.kind = "ids" /\ il.res.ids = <<>>)
        /\ il.k > Len(vi.index)
               => /\ il.res.kind = "ids"
                  /\ Len(il.res.ids) = Len(vi.task_ids)
                  /\ \A j \in 1..Len(vi.task_ids) :
                         \E i \in 1..Len(il.res.ids) : il.res.ids[i] = vi.task_ids[j]
        /\ il.res.kind = "ids" => Len(il.res.ids) <= il.k

\* C20 (as claimed): search(query, 0) returns the empty list without
\* raising, whatever the index holds.
C20_ZeroKReturnsEmpty ==
    (il.op = "search" /\ il.k = 0) => (il.res.kind = "ids" /\ il.res.ids = <<>>)

\* C15 (as claimed): neither read of a search gets anything but what the
\* last completed rebuild left: a search never sees the index or task_ids
\* of a rebuild that is under way.
C15_SearchSeesCompleteIndex ==
    ~pr.S.s.dirty

\* C16: at most one build_index_for_tasks is past the lock and not yet done,
\* and whenever none is and one has ended, the vectors and task_ids are
\* those of one ended request: its ids and its embeddings.
C16_OneRebuildAtATime ==
    /\ ~(InRegion(pr.B1.b) /\ InRegion(pr.B2.b))
    /\ (/\ ~InRegion(pr.B1.b)
        /\ ~InRegion(pr.B2.b)
        /\ \E p \in Builders : pr[p].b.pc = "done")
           => \E p \in Builders :
                  /\ pr[p].b.pc = "done"
                  /\ vi.task_ids = IdsOf(pr[p].b.tasks)
                  /\ vi.index = pr[p].b.all_embeddings

C16_Witness ==
    /\ pr.B1.b.pc = "done"
    /\ pr.B2.b.pc = "done"
    /\ pr.B1.b.res = Unit
    /\ pr.B2.b.res = Unit
    /\ pr.B2.overlapped
    /\ pr.B2.th # pr.B1.th
    /\ pr.B1.b.tasks # pr.B2.b.tasks
    /\ vi.task_ids = IdsOf(pr.B1.b.tasks)

\* C21: a rebuild that repeats the rebuild before it (same task list, same
\* outcome of the generation call) leaves an index that answers every query
\* and every k with the same id sequence, or the same failure, as the index
\* the first of the two left.
C21_RebuildIsIdempotent ==
    (il.op = "build_index_for_tasks" /\ il.repeat) =>
        \A query \in Queries, k \in 0..MaxK :
            search(vi, query, k) = search(il.prior, query, k)

C21_Witness ==
    /\ il.op = "build_index_for_tasks"
    /\ il.repeat
    /\ il.res.kind = "ok"
    /\ Len(il.tasks) = 2
    /\ vi.use_llm
    /\ il.gen.kind # "raise"
    /\ search(vi, <<"x">>, 2).kind = "ids"
    /\ Len(search(il.prior, <<"x">>, 2).ids) = 2

\* C22: a call of enhance_task_descriptions makes exactly one generation
\* request when use_llm is on, however many tasks it is given, and with
\* use_llm off it makes none and returns each id with its original text.
C22_OneRequestPerCall ==
    il.op = "enhance_task_descriptions" =>
        IF vi.use_llm
        THEN il.enh.requests = 1
        ELSE /\ il.enh.requests = 0
             /\ DOMAIN il.enh.texts = {il.tasks[i].id : i \in 1..Len(il.tasks)}
             /\ \A i \in 1..Len(il.tasks) :
                    il.enh.texts[il.tasks[i].id] = task_texts(il.tasks)[i].text

C22_Witness ==
    /\ il.op = "enhance_task_descriptions"
    /\ vi.use_llm
    /\ Len(il.tasks) = 2
    /\ il.gen.kind # "raise"
    /\ il.enh.requests = 1

ChunksOfFile(n) ==
    LET docs == SelectSeq(dl.res[1],
                          LAMBDA d : d.metadata.full_path = dl.kb.files[n].path)
    IN  [i \in 1..Len(docs) |-> SubSeq(docs[i].page_content, 5, Len(docs[i].page_content))]

\* chunks can be laid over text in their order so that each one matches the
\* text where it lies, begins no later than right after the part covered so
\* far (no character is lost) and no more than overlap characters before its
\* end (no character is repeated outside the overlap), and the last one
\* ends with the text.
RECURSIVE Lays(_, _, _, _)
Lays(text, chunks, covered, overlap) ==
    IF chunks = <<>> THEN covered = Len(text)
    ELSE \E start \in 1..(covered + 1) :
            /\ start + overlap > covered
            /\ start + Len(chunks[1]) - 1 <= Len(text)
            /\ SubSeq(text, start, start + Len(chunks[1]) - 1) = chunks[1]
            /\ Lays(text, Tail(chunks), start + Len(chunks[1]) - 1, overlap)

\* C24 (as claimed): for every chunk_size > chunk_overlap >= 0 and every
\* text, the chunks made of a file, laid over the text of the file (as read
\* and stripped) with no more than the declared overlap between neighbours,
\* reconstruct that text: nothing lost, repeated outside the overlap, or
\* reordered.
C24_ChunksReconstructText ==
    (dl.op = "create_documents_from_kb" /\ dl.kb.is_dir) =>
        \A n \in 1..Len(dl.kb.files) :
            (dl.kb.files[n].readable /\ Strip(dl.kb.files[n].text) # <<>>)
                => Lays(Strip(dl.kb.files[n].text), ChunksOfFile(n), 0, dl.chunk_overlap)

\* C25 (as claimed): every document of one run of create_documents_from_kb
\* has source_type "kb_file", the chunk_index of the documents of one file
\* runs 0, 1, 2, ..., and no two documents have the same filename and
\* chunk_index.
C25_FilenameAndIndexIdentifyChunk ==
    dl.op = "create_documents_from_kb" =>
        LET docs == dl.res[1]
        IN  /\ \A i \in 1..Len(docs) :
                   /\ docs[i].metadata.source_type = "kb_file"
                   /\ docs[i].metadata.chunk_index =
                          Cardinality({j \in 1..(i - 1) :
                              docs[j].metadata.full_path = docs[i].metadata.full_path})
            /\ \A i, j \in 1..Len(docs) :
                   (i # j) => <<docs[i].metadata.filename, docs[i].metadata.chunk_index>>
                              # <<docs[j].metadata.filename, docs[j].metadata.chunk_index>>

\* C26 (as claimed): populate_from_json with a missing file or a file that
\* is not valid JSON raises nothing and imports zero records: the tasks table
\* and the cache version are the same after the call as before it.
C26_BadFileImportsNothing ==
    (last.op = "populate_from_json" /\ last.arg # "data")
        => /\ last.res # Raised
           /\ last.res.id = 0
           /\ db.c = last.pre

\* C27: when chain.invoke fails during a Send (a question was entered and
\* there is a chain), it was called exactly once, the error is shown, and
\* the history has gained the user's message and nothing else.
C27_FailedGenerationNoRetry ==
    (ul.op = "send" /\ ul.input # <<>> /\ ss.chain.kind = "chain" /\ ul.outcome = "raise")
        => /\ ul.invoked = 1
           /\ ul.error = "generation"
           /\ ss.chat_history = Append(ul.before, [role |-> "user", content |-> ul.input])

C27_Witness ==
    /\ ul.op = "send"
    /\ ul.input = <<"x">>
    /\ ss.chain.kind = "chain"
    /\ ul.outcome = "raise"
    /\ ul.invoked = 1
    /\ Len(ul.before) = 2
    /\ Len(ss.chat_history) = 3

\* C28: every step of the UI leaves the chat history it found as a prefix of
\* the history it leaves: a Send with an empty input, without a chain, with
\* an answer or with a failure, and a run of the script without a Send.
C28_HistoryIsAppendOnly ==
    /\ Len(ul.before) <= Len(ss.chat_history)
    /\ SubSeq(ss.chat_history, 1, Len(ul.before)) = ul.before

C28_Witness ==
    /\ ul.op = "send"
    /\ ul.rerun
    /\ Len(ul.before) = 3
    /\ Len(ss.chat_history) = 5
    /\ ss.chat_history[2].role = "user"
    /\ ss.chat_history[5].role = "assistant"

\* C29 (as claimed): when add_new_task or update_task of the UI layer has
\* ended after its database write returned, st.session_state.chain is the
\* chain that the rebuild function built from the store as the write left it.
C29_ChainRebuiltAfterWrite ==
    (ul.op \in {"add_new_task", "update_task"} /\ ul.wrote # Raised)
        => ss.chain = ul.built

\* C30 (as claimed): add_new_task returns True when db.add_task stored the
\* task and False when it did not, and update_task of the UI layer returns
\* True when the row was updated and False when it was not.
C30_ResultTellsWhetherStored ==
    ul.op \in {"add_new_task", "update_task"} =>
        ul.res = IF Succeeded(ul.wrote) THEN [kind |-> "True", id |-> 0] ELSE False

\* C31: initialize_rag_system returns a chain only if the API key is set, there
\* is at least one document, and the vector store, the language model and the
\* chain were all built; whenever the key is missing, there is no document or
\* one of the three fails, the first component of the result is None; and
\* with no API key it returns (None, [], []) and db.get_all_tasks() was not
\* called.
C31_ChainOnlyWhenAllSucceeded ==
    ul.op = "initialize_rag_system" =>
        LET i == ul.init
            ok == i.key /\ i.call.documents # <<>> /\ i.fail # "vectors"
        IN  /\ Len(i.call.ret) = 3
            /\ i.call.ret[1] # NoChain => ok
            /\ ~ok => i.call.ret[1] = NoChain
            /\ ~i.key => i.call.ret = <<NoChain, <<>>, <<>>>> /\ ~i.call.read

\* C31 witness: a call without the key on a store that holds a task.
C31_Witness ==
    /\ ul.op = "initialize_rag_system"
    /\ ~ul.init.key
    /\ DOMAIN db.c.tasks # {}

\* C32: the records of the response are matched to the inputs by position.
\* The text returned for the i-th input id is the i-th input text followed
\* by the enhancement and the tags of the i-th record; an input past the
\* last record keeps its text as it was; records past the last input add
\* nothing (the keys are the input ids).
C32_RecordsMatchedByPosition ==
    (/\ il.op = "enhance_task_descriptions"
     /\ vi.use_llm
     /\ il.gen.kind = "text")
        => LET inputs == task_texts(il.tasks)
               records == il.gen.records
           IN  /\ DOMAIN il.enh.texts = {inputs[i].id : i \in 1..Len(inputs)}
               /\ \A i \in 1..Len(inputs) :
                      il.enh.texts[inputs[i].id] =
                          IF i <= Len(records)
                          THEN enhance_one(inputs[i].text, records[i])
                          ELSE inputs[i].text
               /\ \A i \in 1..Len(inputs) :
                      InSeq("[t]", il.enh.texts[inputs[i].id])
                          <=> (i <= Len(records) /\ InSeq("[t]", records[i]))

\* C32 witness: two inputs and one record, the first input being enhanced
\* and the second left as it was.
C32_Witness ==
    /\ il.op = "enhance_task_descriptions"
    /\ vi.use_llm
    /\ il.gen.kind = "text"
    /\ Len(il.tasks) = 2
    /\ Len(il.gen.records) = 1
    /\ il.enh.texts[il.tasks[1].id] # task_texts(il.tasks)[1].text
    /\ il.enh.texts[il.tasks[2].id] = task_texts(il.tasks)[2].text

\* C33 (as claimed): under any interleaving of a writer's statements with the
\* two reads of a cache reload, whenever no add_task / update_task is in
\* progress and the cache is loaded with the version the store has, the
\* cached tasks are the store's tasks.
C33_LoadedCacheAtStoreVersionIsCurrent ==
    (/\ wr.pc = "idle"
     /\ cache.loaded
     /\ cache.version = db.c.version)
        => cache.tasks = db.c.tasks

\* C34 (as claimed): the get_tasks() that follows truncate_tables(), on a
\* cache that was loaded before the truncate, returns an empty list.
C34_TruncateEmptiesCachedView ==
    (/\ last.op = "get_tasks"
     /\ last.afterTruncate
     /\ last.cpre.loaded)
        => last.served = EmptyRows

\* C35 (as claimed): two build_index_for_tasks coroutines under way at the
\* same time on one event loop both complete in the end; the lock the first
\* one holds across the await of the enhancement call does not block the
\* loop for ever.
C35_BothRebuildsComplete ==
    (/\ pr.B1.th = pr.B2.th
     /\ pr.B1.b.pc \notin {"idle", "done"}
     /\ pr.B2.b.pc \notin {"idle", "done"})
        ~> (pr.B1.b.pc = "done" /\ pr.B2.b.pc = "done")

\* C36 (as claimed): find_relevant_tasks returns the tasks in the order in
\* which vector_index.search ranked their ids (nearest first), only tasks
\* whose ids search returned, and never more than limit of them.
C36_ResultFollowsRanking ==
    (il.op = "find_relevant_tasks" /\ il.res.kind = "tasks")
        => LET found == search(vi, il.query, il.k)
           IN  /\ found.kind = "ids"
               /\ il.res.ids = found.ids
               /\ Len(il.res.ids) <= il.k

\* C37 (as claimed): for every store state and every tag, get_tasks(tag) of
\* the cache service, the cache having just been loaded from the store, and
\* get_tasks_by_tags(tag) of the store return the same tasks.
C37_CacheFilterAgreesWithStore ==
    (/\ last.op = "get_tasks"
     /\ last.res.kind = "tag"
     /\ last.got)
        => last.served = get_tasks_by_tags(db, last.arg)

\* C38 (as claimed): when build_index_for_tasks(tasks) has completed,
\* enhanced_embeddings has an entry for exactly the ids of tasks, and the
\* index and task_ids hold what this rebuild stored and nothing from before.
C38_EmbeddingCacheHoldsLatestIds ==
    (il.op = "build_index_for_tasks" /\ il.res.kind = "ok")
        => /\ DOMAIN vi.enhanced_embeddings = {il.tasks[i].id : i \in 1..Len(il.tasks)}
           /\ vi.task_ids = IdsOf(il.tasks)
           /\ Len(vi.index) = Len(il.tasks)

\* C39: a Send with a question and a chain.  When chain.invoke fails, the
\* history is the history before with the user's message at its end and no
\* assistant reply, and question_key is what it was.  When it answers, the
\* history is the history before followed by one user message and one
\* assistant message, and question_key is one more than it was.
C39_SendFailureAndSuccess ==
    (ul.op = "send" /\ ul.input # <<>> /\ ss.chain.kind = "chain")
        => LET n == Len(ul.before)
               h == ss.chat_history
           IN  /\ SubSeq(h, 1, n) = ul.before
               /\ Len(h) > n
               /\ h[n + 1] = [role |-> "user", content |-> ul.input]
               /\ IF ul.outcome = "raise"
                  THEN /\ Len(h) = n + 1
                       /\ ss.question_key = ul.key_before
                  ELSE /\ Len(h) = n + 2
                       /\ h[n + 2].role = "assistant"
                       /\ ss.question_key = ul.key_before + 1

\* C39 witness: a Send that failed after one that was answered, the key
\* still at 1.
C39_Witness ==
    /\ ul.op = "send"
    /\ ul.input # <<>>
    /\ ss.chain.kind = "chain"
    /\ ul.outcome = "raise"
    /\ ul.key_before = 1
    /\ ss.question_key = 1
    /\ Len(ss.chat_history) = 3
    /\ ss.chat_history[3].role = "user"

\* C3 (as claimed): no observer interleaved with a writer reads a store
\* state in which the task write of an add_task / update_task is visible
\* without its cache-version increment, or the increment without the write.
\* The observer is a reload whose two reads saw one and the same committed
\* state while the call was in progress.
C3_WriteAndBumpSeenTogether ==
    obs.valid => ((obs.tasks # obs.pre.tasks) <=> (obs.version # obs.pre.version))

====
